---------------------------- MODULE Spec2Model ----------------------------
(***************************************************************************)
(* EnvQuack: dotenv / docker-compose / Dockerfile variable extraction and  *)
(* the set reconciliation built on it.                                     *)
(*                                                                         *)
(* A Go string is a sequence of one-character strings, so that trimming,   *)
(* splitting, quote stripping, regular-expression matching and             *)
(* sort.Strings are computed character by character.  A Go map is a        *)
(* function; ranging over a map visits its keys in an order the runtime    *)
(* picks, which is an explicit order argument here, chosen by \E in the    *)
(* actions.                                                                *)
(***************************************************************************)
EXTENDS Integers, Sequences, FiniteSets, TLC

(***************************************************************************)
(* Bounds of the model.                                                    *)
(***************************************************************************)
\* number of distinct variable names the env / example / Dockerfile sets use
MaxKeys == 2
\* number of fragments a raw compose text is put together from
MaxFrags == 4
\* length of the line of a one-line env file over the full line alphabet
MaxLineLen == 4
\* number of lines of an env file of plain assignment lines
MaxLines == 3
\* number of lines of a Dockerfile
MaxDockerLines == 3

\* env files supplied to one comparison
MaxEnvFiles == 2

\* lines of the env file and of the example file given to check and sync
MaxSyncLines == 2

\* lines of a Dockerfile with continued instructions
MaxContinuedLines == 3

\* characters in the content of one ENV or ARG instruction
MaxContentLen == 5

(***************************************************************************)
(* Strings.                                                                *)
(***************************************************************************)
Digits == << "0", "1", "2", "3", "4", "5", "6", "7", "8", "9" >>

Upper ==
  << "A", "B", "C", "D", "E", "F", "G", "H", "I", "J", "K", "L", "M",
     "N", "O", "P", "Q", "R", "S", "T", "U", "V", "W", "X", "Y", "Z" >>

Lower ==
  << "a", "b", "c", "d", "e", "f", "g", "h", "i", "j", "k", "l", "m",
     "n", "o", "p", "q", "r", "s", "t", "u", "v", "w", "x", "y", "z" >>

\* the characters of the model in byte order (sort.Strings compares bytes)
CharOrder ==
  << " ", "\"", "#", "$", "'", "-", ".", "/" >> \o Digits \o << ":", "=" >>
    \o Upper \o << "\\", "_" >> \o Lower \o << "{", "}" >>

Rank(c) == CHOOSE i \in 1..Len(CharOrder) : CharOrder[i] = c

RECURSIVE LessStr(_, _)
\* a < b for Go strings: bytewise lexicographic
LessStr(a, b) ==
  IF Len(b) = 0 THEN FALSE
  ELSE IF Len(a) = 0 THEN TRUE
  ELSE IF Head(a) = Head(b) THEN LessStr(Tail(a), Tail(b))
  ELSE Rank(Head(a)) < Rank(Head(b))

Range(s) == {s[i] : i \in 1..Len(s)}

RECURSIVE Perms(_)
\* the sequences that list every element of S once
Perms(S) ==
  IF S = {} THEN { << >> }
  ELSE UNION { { <<x>> \o p : p \in Perms(S \ {x}) } : x \in S }

\* The order in which a range over a map with key set S runs.  The runtime
\* picks it; perm, a listing of the names in play, fixes it for one call.
RangeOrder(S, perm) == SelectSeq(perm, LAMBDA k : k \in S)

RECURSIVE InsertSorted(_, _)
InsertSorted(s, x) ==
  IF Len(s) = 0 THEN <<x>>
  ELSE IF LessStr(x, Head(s)) THEN <<x>> \o s
  ELSE <<Head(s)>> \o InsertSorted(Tail(s), x)

RECURSIVE SortFrom(_, _)
SortFrom(acc, s) ==
  IF Len(s) = 0 THEN acc ELSE SortFrom(InsertSorted(acc, Head(s)), Tail(s))

\* a plausible slip: the list is returned in the order it was collected
SortStringsForgotten(s) == s

\* sort.Strings
SortStrings(s) == SortFrom(<< >>, s)

IsSorted(s) == \A i \in 1..(Len(s) - 1) : LessStr(s[i], s[i + 1])

IsSpace(c) == c = " "

RECURSIVE TrimLeft(_)
TrimLeft(s) == IF Len(s) > 0 /\ IsSpace(Head(s)) THEN TrimLeft(Tail(s)) ELSE s

RECURSIVE TrimRight(_)
TrimRight(s) ==
  IF Len(s) > 0 /\ IsSpace(s[Len(s)]) THEN TrimRight(SubSeq(s, 1, Len(s) - 1)) ELSE s

\* strings.TrimSpace
TrimSpace(s) == TrimRight(TrimLeft(s))

\* strings.Contains(s, c) for a one-character c
ContainsChar(s, c) == \E i \in 1..Len(s) : s[i] = c

RECURSIVE IndexFrom(_, _, _)
\* the first index >= i at which s holds c, or 0
IndexFrom(s, c, i) ==
  IF i > Len(s) THEN 0 ELSE IF s[i] = c THEN i ELSE IndexFrom(s, c, i + 1)

\* strings.SplitN(s, c, 2), for an s that holds c: the text before / after the first c
BeforeFirst(s, c) == SubSeq(s, 1, IndexFrom(s, c, 1) - 1)
AfterFirst(s, c) == SubSeq(s, IndexFrom(s, c, 1) + 1, Len(s))

\* strings.HasPrefix / strings.HasSuffix
HasPrefix(s, p) == Len(s) >= Len(p) /\ SubSeq(s, 1, Len(p)) = p
HasSuffix(s, p) == Len(s) >= Len(p) /\ SubSeq(s, Len(s) - Len(p) + 1, Len(s)) = p

\* the map m after m[k] = v
Put(m, k, v) == [x \in DOMAIN m \cup {k} |-> IF x = k THEN v ELSE m[x]]

EmptyMap == [x \in {} |-> << >>]

(***************************************************************************)
(* EnvVars: map[string]string.                                             *)
(***************************************************************************)
AllNames == << <<"B">>, <<"A">>, <<"C">>, <<"A", "B">> >>

Keys == {AllNames[i] : i \in 1..MaxKeys}

\* values an env file gives a variable: empty, or some text
Values == { << >>, <<"v">> }

EnvVarsOver(K, V) == UNION {[S -> V] : S \in SUBSET K}

\* a plausible slip: a variable with an empty value counts as absent
HasNonEmpty(e, key) == key \in DOMAIN e /\ e[key] # << >>

\* EnvVars.Has
Has(e, key) == key \in DOMAIN e

(***************************************************************************)
(* checker: env against example.                                           *)
(***************************************************************************)
NoResult == [none |-> TRUE]

\* a plausible slip: every key of env is reported as extra
CompareEnvVarsNoFilter(envv, examplev, perm) ==
  [Missing |-> SortStrings(SelectSeq(RangeOrder(DOMAIN examplev, perm),
                                     LAMBDA k : ~Has(envv, k))),
   Extra   |-> SortStrings(RangeOrder(DOMAIN envv, perm))]

\* a plausible slip: the two lists are returned as the map ranges gave them
CompareEnvVarsUnsorted(envv, examplev, perm) ==
  [Missing |-> SelectSeq(RangeOrder(DOMAIN examplev, perm), LAMBDA k : ~Has(envv, k)),
   Extra   |-> SelectSeq(RangeOrder(DOMAIN envv, perm), LAMBDA k : ~Has(examplev, k))]

\* CompareEnvVars
CompareEnvVars(envv, examplev, perm) ==
  [Missing |-> SortStrings(SelectSeq(RangeOrder(DOMAIN examplev, perm),
                                     LAMBDA k : ~Has(envv, k))),
   Extra   |-> SortStrings(SelectSeq(RangeOrder(DOMAIN envv, perm),
                                     LAMBDA k : ~Has(examplev, k)))]

\* a plausible slip: only the missing list is looked at
DiffHasIssuesMissingOnly(d) == Len(d.Missing) > 0

\* DiffResult.HasIssues
DiffHasIssues(d) == Len(d.Missing) > 0 \/ Len(d.Extra) > 0


(***************************************************************************)
(* parser: docker-compose.                                                 *)
(*                                                                         *)
(* A decoded YAML value (Go interface{}) is a tagged record: nil, a        *)
(* string, an int, a float64, a []interface{} or a map[string]interface{}. *)
(***************************************************************************)
YNil == [tag |-> "nil"]
YStr(s) == [tag |-> "str", s |-> s]
\* an int, held as its decimal digits
YInt(digits) == [tag |-> "int", s |-> digits]
\* a float64 of small magnitude, held as integer digits and fraction digits
YFloat(int, frac) == [tag |-> "float", s |-> int, frac |-> frac]
YList(items) == [tag |-> "list", items |-> items]
YMap(m) == [tag |-> "map", m |-> m]

RECURSIVE StripTrailingZeros(_)
StripTrailingZeros(d) ==
  IF Len(d) > 0 /\ d[Len(d)] = "0" THEN StripTrailingZeros(SubSeq(d, 1, Len(d) - 1)) ELSE d

\* fmt.Sprintf("%v", value) for a non-nil scalar: a float64 prints as %g does,
\* the shortest decimal that reads back (no trailing zeros, no bare point)
SprintfV(y) ==
  CASE y.tag = "str" -> y.s
    [] y.tag = "int" -> y.s
    [] y.tag = "float" ->
         LET f == StripTrailingZeros(y.frac)
         IN  IF Len(f) = 0 THEN y.s ELSE y.s \o <<".">> \o f

\* parseEnvString: <<key, value>> of "KEY=value" or "KEY"
parseEnvString(str) ==
  LET t == TrimSpace(str)
  IN  IF Len(t) = 0 THEN << << >>, << >> >>
      ELSE IF ContainsChar(t, "=")
           THEN << TrimSpace(BeforeFirst(t, "=")), TrimSpace(AfterFirst(t, "=")) >>
           ELSE << t, << >> >>

RECURSIVE EnvFromList(_, _)
\* the loop of parseEnvironmentSection over a []interface{}
EnvFromList(vars, items) ==
  IF Len(items) = 0 THEN vars
  ELSE LET item == Head(items)
           kv == parseEnvString(item.s)
       IN  IF item.tag = "str" /\ kv[1] # << >>
           THEN EnvFromList(Put(vars, kv[1], kv[2]), Tail(items))
           ELSE EnvFromList(vars, Tail(items))

\* a plausible slip: the mapping form is not handled
parseEnvironmentSectionListOnly(e) ==
  IF e.tag = "list" THEN EnvFromList(EmptyMap, e.items) ELSE EmptyMap

\* parseEnvironmentSection; the keys of a map are distinct, so the order of the
\* range over it does not show in the result
parseEnvironmentSection(e) ==
  CASE e.tag = "list" -> EnvFromList(EmptyMap, e.items)
    [] e.tag = "map" ->
         [k \in DOMAIN e.m |-> IF e.m[k].tag = "nil" THEN << >> ELSE SprintfV(e.m[k])]
    [] OTHER -> EmptyMap

StrItems(items) == SelectSeq(items, LAMBDA y : y.tag = "str")

\* parseEnvFileSection
parseEnvFileSection(f) ==
  CASE f.tag = "str" -> << f.s >>
    [] f.tag = "list" -> [i \in 1..Len(StrItems(f.items)) |-> StrItems(f.items)[i].s]
    [] OTHER -> << >>

RECURSIVE removeDuplicatesFrom(_, _)
removeDuplicatesFrom(result, slice) ==
  IF Len(slice) = 0 THEN result
  ELSE IF Head(slice) \in Range(result)
       THEN removeDuplicatesFrom(result, Tail(slice))
       ELSE removeDuplicatesFrom(Append(result, Head(slice)), Tail(slice))

\* removeDuplicates
removeDuplicates(slice) == removeDuplicatesFrom(<< >>, slice)


(***************************************************************************)
(* Variable references: the three regular expressions of                   *)
(* extractVariableReferences, matched as regexp.FindAllStringSubmatch      *)
(* does: leftmost match first, greedy, the next search starting where the  *)
(* previous match ended.                                                   *)
(***************************************************************************)
\* [A-Z_]
IsNameStart(c) == c \in Range(Upper) \cup {"_"}
\* [A-Z0-9_]
IsNameChar(c) == c \in Range(Upper) \cup Range(Digits) \cup {"_"}

RECURSIVE NameEnd(_, _)
\* the index after the longest run of [A-Z0-9_] that starts at i
NameEnd(s, i) == IF i <= Len(s) /\ IsNameChar(s[i]) THEN NameEnd(s, i + 1) ELSE i

NoMatch == [end |-> 0, name |-> << >>]

\* \$\{([A-Z_][A-Z0-9_]*)\} at index i
MatchBraced(s, i) ==
  IF i + 2 <= Len(s) /\ s[i] = "$" /\ s[i + 1] = "{" /\ IsNameStart(s[i + 2])
  THEN LET e == NameEnd(s, i + 2)
       IN  IF e <= Len(s) /\ s[e] = "}"
           THEN [end |-> e + 1, name |-> SubSeq(s, i + 2, e - 1)]
           ELSE NoMatch
  ELSE NoMatch

\* \$\{([A-Z_][A-Z0-9_]*):?[^}]*\} at index i: the group is the longest run of
\* name characters, [^}]* takes everything up to the first closing brace
MatchModified(s, i) ==
  IF i + 2 <= Len(s) /\ s[i] = "$" /\ s[i + 1] = "{" /\ IsNameStart(s[i + 2])
  THEN LET e == NameEnd(s, i + 2)
           close == IndexFrom(s, "}", e)
       IN  IF close > 0
           THEN [end |-> close + 1, name |-> SubSeq(s, i + 2, e - 1)]
           ELSE NoMatch
  ELSE NoMatch

\* \$([A-Z_][A-Z0-9_]*) at index i
MatchBare(s, i) ==
  IF i + 1 <= Len(s) /\ s[i] = "$" /\ IsNameStart(s[i + 1])
  THEN LET e == NameEnd(s, i + 1)
       IN  [end |-> e, name |-> SubSeq(s, i + 1, e - 1)]
  ELSE NoMatch

MatchAt(pattern, s, i) ==
  CASE pattern = 1 -> MatchBraced(s, i)
    [] pattern = 2 -> MatchModified(s, i)
    [] pattern = 3 -> MatchBare(s, i)

RECURSIVE FindAllNames(_, _, _)
\* the first groups of pattern.FindAllStringSubmatch(content, -1), from index i on
FindAllNames(pattern, s, i) ==
  IF i > Len(s) THEN << >>
  ELSE LET m == MatchAt(pattern, s, i)
       IN  IF m.end > 0
           THEN << m.name >> \o FindAllNames(pattern, s, m.end)
           ELSE FindAllNames(pattern, s, i + 1)

InternalVars ==
  { <<"C", "O", "M", "P", "O", "S", "E", "_", "P", "R", "O", "J", "E", "C", "T", "_", "N", "A", "M", "E">>,
    <<"C", "O", "M", "P", "O", "S", "E", "_", "F", "I", "L", "E">>,
    <<"C", "O", "M", "P", "O", "S", "E", "_", "P", "A", "T", "H", "_", "S", "E", "P", "A", "R", "A", "T", "O", "R">>,
    <<"D", "O", "C", "K", "E", "R", "_", "H", "O", "S", "T">>,
    <<"D", "O", "C", "K", "E", "R", "_", "T", "L", "S", "_", "V", "E", "R", "I", "F", "Y">>,
    <<"D", "O", "C", "K", "E", "R", "_", "C", "E", "R", "T", "_", "P", "A", "T", "H">>,
    <<"H", "O", "S", "T", "N", "A", "M", "E">>,
    <<"U", "S", "E", "R">>,
    <<"H", "O", "M", "E">>,
    <<"P", "A", "T", "H">>,
    <<"P", "W", "D">> }

\* isDockerInternalVar
isDockerInternalVar(varName) == varName \in InternalVars

\* the varSet of extractVariableReferences
ReferencedVarSet(content) ==
  { n \in UNION {Range(FindAllNames(p, content, 1)) : p \in 1..3} : ~isDockerInternalVar(n) }

\* extractVariableReferences
extractVariableReferences(content, perm) ==
  SortStrings(RangeOrder(ReferencedVarSet(content), perm))


(***************************************************************************)
(* ParseComposeData.  A document is its decoded services together with its *)
(* raw text (the text is what the reference patterns scan); a document     *)
(* yaml.Unmarshal rejects has valid = FALSE.                               *)
(***************************************************************************)
ParseError == [error |-> TRUE]

IsError(x) == "error" \in DOMAIN x

\* a plausible slip: a key that is already there keeps its value
MergeIntoKeepsFirst(dst, src) ==
  [k \in DOMAIN dst \cup DOMAIN src |-> IF k \in DOMAIN dst THEN dst[k] ELSE src[k]]

\* dst after "for k, v := range src { dst[k] = v }"
MergeInto(dst, src) ==
  [k \in DOMAIN dst \cup DOMAIN src |-> IF k \in DOMAIN src THEN src[k] ELSE dst[k]]

EmptyInfo ==
  [Variables |-> EmptyMap, ServiceVars |-> [x \in {} |-> EmptyMap],
   EnvFiles |-> << >>, VariableRefs |-> << >>]

RECURSIVE ServicesLoop(_, _, _)
\* the loop of ParseComposeData over compose.Services, in the order svcOrd
ServicesLoop(info, services, svcOrd) ==
  IF Len(svcOrd) = 0 THEN info
  ELSE LET serviceName == Head(svcOrd)
           service == services[serviceName]
           envVars == parseEnvironmentSection(service.Environment)
           envFiles == parseEnvFileSection(service.EnvFile)
       IN  ServicesLoop(
             [info EXCEPT
                !.Variables = MergeInto(@, envVars),
                !.EnvFiles = @ \o envFiles,
                !.ServiceVars = IF DOMAIN envVars # {} THEN Put(@, serviceName, envVars)
                                ELSE @],
             services, Tail(svcOrd))

\* a plausible slip: the env_file paths are left in the order they were collected
ParseComposeDataUnsortedFiles(doc, svcOrd, perm) ==
  IF ~doc.valid THEN ParseError
  ELSE LET info == ServicesLoop(EmptyInfo, doc.services, svcOrd)
       IN  [info EXCEPT
              !.VariableRefs = extractVariableReferences(doc.text, perm),
              !.EnvFiles = removeDuplicates(info.EnvFiles)]

\* ParseComposeData
ParseComposeData(doc, svcOrd, perm) ==
  IF ~doc.valid THEN ParseError
  ELSE LET info == ServicesLoop(EmptyInfo, doc.services, svcOrd)
       IN  [info EXCEPT
              !.VariableRefs = extractVariableReferences(doc.text, perm),
              !.EnvFiles = SortStrings(removeDuplicates(info.EnvFiles))]

\* a plausible slip: the variable references are left out
GetAllEnvVarsNoRefs(info, perm) ==
  SortStrings(RangeOrder(DOMAIN info.Variables, perm))

\* ComposeEnvInfo.GetAllEnvVars
GetAllEnvVars(info, perm) ==
  SortStrings(RangeOrder(DOMAIN info.Variables \cup Range(info.VariableRefs), perm))

(***************************************************************************)
(* checker: compose against the merged env set.  readable is the set of    *)
(* paths on which parser.ParseEnvFile returns no error.                    *)
(***************************************************************************)
\* the missing list of one service, before it is sorted
ServiceMissing(serviceVars, envVars, perm) ==
  SelectSeq(RangeOrder(DOMAIN serviceVars, perm), LAMBDA v : ~Has(envVars, v))

\* a plausible slip: a service is compared against the variables of all services
ServiceBreakdownOfAll(info, envVars, perm) ==
  LET miss(svc) == ServiceMissing(info.Variables, envVars, perm)
  IN  [svc \in {x \in DOMAIN info.ServiceVars : Len(miss(x)) > 0} |-> SortStrings(miss(svc))]

\* the service loop of compareComposeWithEnvVars
ServiceBreakdownOf(info, envVars, perm) ==
  LET miss(svc) == ServiceMissing(info.ServiceVars[svc], envVars, perm)
  IN  [svc \in {x \in DOMAIN info.ServiceVars : Len(miss(x)) > 0} |-> SortStrings(miss(svc))]

\* a plausible slip: every referenced env file is reported, readable or not
compareComposeWithEnvVarsAllFiles(info, envVars, readable, perm) ==
  LET composeVars == GetAllEnvVars(info, perm)
      composeVarSet == Range(composeVars)
  IN  [MissingInEnv |-> SortStrings(SelectSeq(composeVars, LAMBDA v : ~Has(envVars, v))),
       ExtraInEnv |-> SortStrings(SelectSeq(RangeOrder(DOMAIN envVars, perm),
                                            LAMBDA v : v \notin composeVarSet)),
       MissingEnvFiles |-> SortStrings(info.EnvFiles),
       ServiceBreakdown |-> ServiceBreakdownOf(info, envVars, perm)]

\* a plausible slip: only the referenced names are looked up in the env set
compareComposeWithEnvVarsRefsOnly(info, envVars, readable, perm) ==
  LET composeVars == GetAllEnvVars(info, perm)
      composeVarSet == Range(composeVars)
  IN  [MissingInEnv |-> SortStrings(SelectSeq(info.VariableRefs, LAMBDA v : ~Has(envVars, v))),
       ExtraInEnv |-> SortStrings(SelectSeq(RangeOrder(DOMAIN envVars, perm),
                                            LAMBDA v : v \notin composeVarSet)),
       MissingEnvFiles |-> SortStrings(SelectSeq(info.EnvFiles, LAMBDA f : f \notin readable)),
       ServiceBreakdown |-> ServiceBreakdownOf(info, envVars, perm)]

\* compareComposeWithEnvVars
compareComposeWithEnvVars(info, envVars, readable, perm) ==
  LET composeVars == GetAllEnvVars(info, perm)
      composeVarSet == Range(composeVars)
  IN  [MissingInEnv |-> SortStrings(SelectSeq(composeVars, LAMBDA v : ~Has(envVars, v))),
       ExtraInEnv |-> SortStrings(SelectSeq(RangeOrder(DOMAIN envVars, perm),
                                            LAMBDA v : v \notin composeVarSet)),
       MissingEnvFiles |-> SortStrings(SelectSeq(info.EnvFiles, LAMBDA f : f \notin readable)),
       ServiceBreakdown |-> ServiceBreakdownOf(info, envVars, perm)]

\* ComposeDiffResult.HasIssues
ComposeHasIssues(c) ==
  Len(c.MissingInEnv) > 0 \/ Len(c.ExtraInEnv) > 0 \/ Len(c.MissingEnvFiles) > 0

(***************************************************************************)
(* parser: ParseDockerfile.  The scanner delivers the lines one by one;    *)
(* a complete instruction is handed to parseDockerfileInstruction, and at  *)
(* the end the references are taken from the whole content.                *)
(***************************************************************************)
ToUpperChar(c) ==
  IF c \in Range(Lower) THEN Upper[CHOOSE i \in 1..Len(Lower) : Lower[i] = c] ELSE c

\* strings.ToUpper
ToUpper(s) == [i \in 1..Len(s) |-> ToUpperChar(s[i])]

RECURSIVE Fields(_)
\* strings.Fields: the maximal runs of characters that are no white space
Fields(s) ==
  LET t == TrimLeft(s)
      sp == IndexFrom(t, " ", 1)
  IN  IF Len(t) = 0 THEN << >>
      ELSE IF sp = 0 THEN << t >>
      ELSE << SubSeq(t, 1, sp - 1) >> \o Fields(SubSeq(t, sp, Len(t)))

RECURSIVE JoinWithSpace(_)
\* strings.Join(parts, " ")
JoinWithSpace(parts) ==
  IF Len(parts) = 0 THEN << >>
  ELSE IF Len(parts) = 1 THEN parts[1]
  ELSE parts[1] \o <<" ">> \o JoinWithSpace(Tail(parts))

IsQuote(c) == c = "\"" \/ c = "'"

RECURSIVE SplitPairs(_, _, _, _, _)
\* the first loop of parseKeyValuePairs from index i on: pairs so far, the
\* current builder, and the open quote character ("" when outside quotes)
SplitPairs(content, i, pairs, current, quoteChar) ==
  IF i > Len(content)
  THEN IF Len(current) > 0 THEN Append(pairs, current) ELSE pairs
  ELSE LET char == content[i]
       IN  IF IsQuote(char)
           THEN SplitPairs(content, i + 1, pairs, Append(current, char),
                           IF quoteChar = "" THEN char
                           ELSE IF char = quoteChar THEN "" ELSE quoteChar)
           ELSE IF char = " "
           THEN IF quoteChar # ""
                THEN SplitPairs(content, i + 1, pairs, Append(current, char), quoteChar)
                ELSE IF Len(current) > 0
                     THEN SplitPairs(content, i + 1, Append(pairs, current), << >>, quoteChar)
                     ELSE SplitPairs(content, i + 1, pairs, current, quoteChar)
           ELSE SplitPairs(content, i + 1, pairs, Append(current, char), quoteChar)

\* the value of a pair with one layer of enclosing quotes removed
UnquoteValue(value) ==
  IF /\ Len(value) >= 2
     /\ \/ HasPrefix(value, <<"\"">>) /\ HasSuffix(value, <<"\"">>)
        \/ HasPrefix(value, <<"'">>) /\ HasSuffix(value, <<"'">>)
  THEN SubSeq(value, 2, Len(value) - 1)
  ELSE value

RECURSIVE StorePairs(_, _)
\* the second loop of parseKeyValuePairs: every pair with '=' is stored
StorePairs(vs, pairs) ==
  IF Len(pairs) = 0 THEN vs
  ELSE LET pair == Head(pairs)
       IN  IF ContainsChar(pair, "=")
           THEN StorePairs(Put(vs, TrimSpace(BeforeFirst(pair, "=")),
                               UnquoteValue(TrimSpace(AfterFirst(pair, "=")))),
                           Tail(pairs))
           ELSE StorePairs(vs, Tail(pairs))

\* a plausible slip: the content is split at every space, quoted or not
parseKeyValuePairsAtEverySpace(content, vs) == StorePairs(vs, Fields(content))

\* parseKeyValuePairs: vars after "key1=value1 key2=value2"
parseKeyValuePairs(content, vs) == StorePairs(vs, SplitPairs(content, 1, << >>, << >>, ""))

\* a plausible slip: an ENV of one word is stored with the empty value
parseEnvInstructionStoresBare(content, envVars) ==
  IF ContainsChar(content, "=") THEN parseKeyValuePairs(content, envVars)
  ELSE LET parts == Fields(content)
       IN  IF Len(parts) >= 2
           THEN Put(envVars, parts[1], JoinWithSpace(Tail(parts)))
           ELSE Put(envVars, parts[1], << >>)

\* parseEnvInstruction: envVars after the instruction (unchanged on its error)
parseEnvInstruction(content, envVars) ==
  IF ContainsChar(content, "=") THEN parseKeyValuePairs(content, envVars)
  ELSE LET parts == Fields(content)
       IN  IF Len(parts) >= 2
           THEN Put(envVars, parts[1], JoinWithSpace(Tail(parts)))
           ELSE envVars

\* a plausible slip: an ARG without a default is not stored
parseArgInstructionDefaultsOnly(content, argVars) ==
  IF ContainsChar(content, "=") THEN parseKeyValuePairs(content, argVars) ELSE argVars

\* parseArgInstruction: argVars after the instruction (unchanged on its error)
parseArgInstruction(content, argVars) ==
  IF ContainsChar(content, "=") THEN parseKeyValuePairs(content, argVars)
  ELSE LET parts == Fields(content)
       IN  IF Len(parts) = 1
           THEN Put(argVars, parts[1], << >>)
           ELSE argVars

\* ^ENV\s+(.+)$ or ^ARG\s+(.+)$ matches the upper-cased line
IsInstruction(line, word) ==
  /\ Len(line) >= 5
  /\ ToUpper(SubSeq(line, 1, 3)) = word
  /\ IsSpace(line[4])

\* parseDockerfileInstruction: info after one complete instruction
parseDockerfileInstruction(text, info) ==
  LET line == TrimSpace(text)
      content == TrimSpace(SubSeq(line, 5, Len(line)))
  IN  IF IsInstruction(line, <<"E", "N", "V">>)
      THEN [info EXCEPT !.EnvVars = parseEnvInstruction(content, info.EnvVars)]
      ELSE IF IsInstruction(line, <<"A", "R", "G">>)
      THEN [info EXCEPT !.ArgVars = parseArgInstruction(content, info.ArgVars)]
      ELSE info

\* parseDockerfileInstruction returns an error: an ENV with one word and no
\* '=', an ARG with several words and no '='
InstructionFails(text) ==
  LET line == TrimSpace(text)
      content == TrimSpace(SubSeq(line, 5, Len(line)))
  IN  IF IsInstruction(line, <<"E", "N", "V">>)
      THEN ~ContainsChar(content, "=") /\ Len(Fields(content)) < 2
      ELSE IF IsInstruction(line, <<"A", "R", "G">>)
      THEN ~ContainsChar(content, "=") /\ Len(Fields(content)) # 1
      ELSE FALSE

\* the line is neither skipped nor kept for a continuation: with it an
\* instruction is complete and handed to parseDockerfileInstruction
CompletesInstruction(text) ==
  LET line == TrimSpace(text)
  IN  line # << >> /\ ~HasPrefix(line, <<"#">>) /\ ~HasSuffix(line, <<"\\">>)

\* a plausible slip: the builder is forgotten when an instruction is complete
ScanDockerfileLineAlone(text, info, current) ==
  LET line == TrimSpace(text)
  IN  IF line = << >> \/ HasPrefix(line, <<"#">>) THEN << info, current >>
      ELSE IF HasSuffix(line, <<"\\">>)
      THEN << info, current \o SubSeq(line, 1, Len(line) - 1) \o <<" ">> >>
      ELSE << parseDockerfileInstruction(line, info), << >> >>

\* one round of the scanner loop of ParseDockerfile on the line text:
\* <<info, currentInstruction>> after it
ScanDockerfileLine(text, info, current) ==
  LET line == TrimSpace(text)
  IN  IF line = << >> \/ HasPrefix(line, <<"#">>) THEN << info, current >>
      ELSE IF HasSuffix(line, <<"\\">>)
      THEN << info, current \o SubSeq(line, 1, Len(line) - 1) \o <<" ">> >>
      ELSE << parseDockerfileInstruction(current \o line, info), << >> >>

\* \$\{?([A-Z_][A-Z0-9_]*)\}? at index i
MatchVarRef(s, i) ==
  IF i + 1 <= Len(s) /\ s[i] = "$"
  THEN LET start == IF s[i + 1] = "{" THEN i + 2 ELSE i + 1
       IN  IF start <= Len(s) /\ IsNameStart(s[start])
           THEN LET e == NameEnd(s, start)
                IN  [end |-> IF e <= Len(s) /\ s[e] = "}" THEN e + 1 ELSE e,
                     name |-> SubSeq(s, start, e - 1)]
           ELSE NoMatch
  ELSE NoMatch

RECURSIVE FindAllVarRefs(_, _)
\* the first groups of varRefRegex.FindAllStringSubmatch(content, -1)
FindAllVarRefs(s, i) ==
  IF i > Len(s) THEN << >>
  ELSE LET m == MatchVarRef(s, i)
       IN  IF m.end > 0
           THEN << m.name >> \o FindAllVarRefs(s, m.end)
           ELSE FindAllVarRefs(s, i + 1)

SystemVars ==
  { <<"P", "A", "T", "H">>, <<"H", "O", "M", "E">>, <<"U", "S", "E", "R">>,
    <<"S", "H", "E", "L", "L">>, <<"T", "E", "R", "M">>, <<"P", "W", "D">>,
    <<"O", "L", "D", "P", "W", "D">>, <<"H", "O", "S", "T", "N", "A", "M", "E">>,
    <<"U", "I", "D">>, <<"G", "I", "D">> }

\* a plausible slip: no variable counts as a system variable
isSystemVarNever(varName) == FALSE

\* isSystemVar
isSystemVar(varName) == varName \in SystemVars

\* the varSet of extractDockerfileVariableRefs
DockerfileVarSet(content) ==
  { n \in Range(FindAllVarRefs(content, 1)) : ~isSystemVar(n) }

\* extractDockerfileVariableRefs
extractDockerfileVariableRefs(content, perm) ==
  SortStrings(RangeOrder(DockerfileVarSet(content), perm))

RECURSIVE JoinLines(_)
\* the content of a file: its lines, each ended by a newline
JoinLines(lines) ==
  IF Len(lines) = 0 THEN << >> ELSE Head(lines) \o <<"\n">> \o JoinLines(Tail(lines))

(***************************************************************************)
(* checker: Dockerfile against the merged env set.                         *)
(***************************************************************************)
\* a plausible slip: the referenced names are left out
GetAllVarsNoRefs(d, perm) ==
  SortStrings(RangeOrder(DOMAIN d.EnvVars \cup DOMAIN d.ArgVars, perm))

\* DockerfileEnvInfo.GetAllVars
GetAllVars(d, perm) ==
  SortStrings(RangeOrder(DOMAIN d.EnvVars \cup DOMAIN d.ArgVars \cup Range(d.VariableRefs), perm))

ToLowerChar(c) ==
  IF c \in Range(Upper) THEN Lower[CHOOSE i \in 1..Len(Upper) : Upper[i] = c] ELSE c

\* strings.ToLower
ToLower(s) == [i \in 1..Len(s) |-> ToLowerChar(s[i])]

ObviousConstants ==
  << <<"p", "r", "o", "d", "u", "c", "t", "i", "o", "n">>,
     <<"d", "e", "v", "e", "l", "o", "p", "m", "e", "n", "t">>,
     <<"s", "t", "a", "g", "i", "n", "g">>,
     <<"t", "e", "s", "t">>,
     <<"t", "r", "u", "e">>,
     <<"f", "a", "l", "s", "e">>,
     <<"0">>,
     <<"1">>,
     <<"u", "t", "f", "8">>,
     <<"u", "t", "f", "-", "8">>,
     <<"e", "n", "_", "U", "S">>,
     <<"C">>,
     <<"/", "a", "p", "p">>,
     <<"/", "u", "s", "r", "/", "l", "o", "c", "a", "l", "/", "b", "i", "n">>,
     <<"/", "b", "i", "n">>,
     <<"/", "t", "m", "p">> >>

\* strings.Contains(value, "://")
ContainsScheme(s) ==
  \E i \in 1..(Len(s) - 2) : s[i] = ":" /\ s[i + 1] = "/" /\ s[i + 2] = "/"

\* isObviousConstant
isObviousConstant(value) ==
  \/ \E i \in 1..Len(ObviousConstants) : ToLower(value) = ObviousConstants[i]
  \/ HasPrefix(value, <<"/">>)
  \/ ContainsScheme(value)
  \/ HasPrefix(value, <<"$", "{">>)

\* DockerfileEnvInfo.HasVar
HasVar(d, varName) ==
  \/ Has(d.EnvVars, varName) \/ Has(d.ArgVars, varName)
  \/ \E i \in 1..Len(d.VariableRefs) : d.VariableRefs[i] = varName

\* a plausible slip: the Dockerfile's own ENV declarations do not count
compareDockerfileWithEnvVarsEnvIgnored(d, envVars, perm) ==
  LET dockerfileVars == GetAllVars(d, perm)
      dockerfileVarSet == Range(dockerfileVars)
      args == RangeOrder(DOMAIN d.ArgVars, perm)
  IN  [MissingInEnv |->
         SortStrings(SelectSeq(dockerfileVars, LAMBDA v : ~Has(envVars, v))),
       ExtraInEnv |->
         SortStrings(SelectSeq(RangeOrder(DOMAIN envVars, perm),
                               LAMBDA v : v \notin dockerfileVarSet)),
       UnusedArgs |->
         SortStrings(SelectSeq(args, LAMBDA a : \A i \in 1..Len(d.VariableRefs) :
                                                  d.VariableRefs[i] # a)),
       HardcodedEnvs |->
         SortStrings(SelectSeq(RangeOrder(DOMAIN d.EnvVars, perm),
                               LAMBDA e : d.EnvVars[e] # << >> /\ ~isObviousConstant(d.EnvVars[e]))),
       MissingArgDefaults |->
         SortStrings(SelectSeq(args, LAMBDA a : d.ArgVars[a] = << >>))]

\* compareDockerfileWithEnvVars
compareDockerfileWithEnvVars(d, envVars, perm) ==
  LET dockerfileVars == GetAllVars(d, perm)
      dockerfileVarSet == Range(dockerfileVars)
      args == RangeOrder(DOMAIN d.ArgVars, perm)
  IN  [MissingInEnv |->
         SortStrings(SelectSeq(dockerfileVars,
                               LAMBDA v : ~Has(d.EnvVars, v) /\ ~Has(envVars, v))),
       ExtraInEnv |->
         SortStrings(SelectSeq(RangeOrder(DOMAIN envVars, perm),
                               LAMBDA v : v \notin dockerfileVarSet)),
       UnusedArgs |->
         SortStrings(SelectSeq(args, LAMBDA a : \A i \in 1..Len(d.VariableRefs) :
                                                  d.VariableRefs[i] # a)),
       HardcodedEnvs |->
         SortStrings(SelectSeq(RangeOrder(DOMAIN d.EnvVars, perm),
                               LAMBDA e : d.EnvVars[e] # << >> /\ ~isObviousConstant(d.EnvVars[e]))),
       MissingArgDefaults |->
         SortStrings(SelectSeq(args, LAMBDA a : d.ArgVars[a] = << >>))]

\* DockerfileDiffResult.HasIssues
DockerfileHasIssues(r) ==
  \/ Len(r.MissingInEnv) > 0
  \/ Len(r.ExtraInEnv) > 0
  \/ Len(r.UnusedArgs) > 0
  \/ Len(r.HardcodedEnvs) > 0


(***************************************************************************)
(* State.  One run makes one comparison: env against example (check,       *)
(* sync, audit), a compose file against the merged env set, or a           *)
(* Dockerfile against the merged env set.                                  *)
(***************************************************************************)
VARIABLES
  mode,           \* which comparison this run makes
  pc,             \* how far the run has come
  env,            \* the (merged) env set
  example,        \* the example set
  doc,            \* the compose document
  readable,       \* the paths ParseEnvFile can read
  composeInfo,    \* *ComposeEnvInfo, or ParseError
  dockerInfo,     \* *DockerfileEnvInfo
  result,         \* the *DiffResult / *ComposeDiffResult / *DockerfileDiffResult
  hasIssues,      \* what result.HasIssues() returned
  \* ParseEnvFile at work on one file
  file,           \* the lines of the file, or Unreadable
  lineNo,         \* the number of lines the scanner has delivered
  fileVars,       \* the EnvVars collected so far
  fileErr,        \* ParseEnvFile returned an error
  \* parseEnvironmentSection on one environment written in both forms
  secContent,     \* what the section says: name -> written value
  secShape,       \* an environment value that is neither a list nor a mapping
  secList,        \* the result for the list form
  secMap,         \* the result for the mapping form
  secOther,       \* the result for secShape
  \* ParseDockerfile at work on one file
  dockerfile,     \* the lines of the Dockerfile
  lineNum,        \* the number of lines the scanner has delivered
  currentInstruction, \* the builder of a continued instruction
  interpreted,    \* the lines handed to parseDockerfileInstruction, in order
  warnings,       \* the line numbers of the warnings printed
  \* questions put to one DockerfileEnvInfo
  allVars,        \* what GetAllVars() returned
  hasVar,         \* a name and what HasVar(name) returned
  \* the env files supplied to CompareComposeWithEnv / CompareDockerfileWithEnv
  envFiles,       \* what ParseEnvFile returns for each supplied file, in order
  envFileIdx,     \* the position of "for _, envFile := range envFiles"
  \* the commands check and sync
  command,        \* the command that ran
  exampleFile,    \* the file at the --example path
  envFile,        \* the file at the --env path
  reported,       \* the comparison result the command reported
  exitCode,       \* the exit code of the process
  \* the command audit
  composeFile,    \* the file at the --compose path
  dockerFile,     \* the Dockerfile of the project
  hasErrors,      \* the flag of runAudit
  auditPc,        \* the sub-check runAudit is at
  \* a comparison made twice
  again           \* the result of the second call on the same inputs

compareVars ==
  << mode, pc, env, example, doc, readable, composeInfo, dockerInfo, result, hasIssues >>

envFileVars == << file, lineNo, fileVars, fileErr >>

sectionVars == << secContent, secShape, secList, secMap, secOther >>

parseDockerfileVars == << dockerfile, lineNum, currentInstruction, interpreted, warnings >>

queryVars == << allVars, hasVar >>

mergeVars == << envFiles, envFileIdx >>

cliVars == << command, exampleFile, envFile, reported, exitCode >>

auditVars == << composeFile, dockerFile, hasErrors, auditPc >>

repeatVars == << again >>

vars == << compareVars, envFileVars, sectionVars, parseDockerfileVars, queryVars, mergeVars, cliVars, auditVars, repeatVars >>

\* what a comparison leaves alone
otherThanCompare == << envFileVars, sectionVars, parseDockerfileVars, queryVars, mergeVars, cliVars, auditVars, repeatVars >>

(***************************************************************************)
(* The inputs of the comparisons.                                          *)
(***************************************************************************)
NameA == <<"A">>
NameB == <<"B">>
NameC == <<"C">>
PathE == <<"e">>
PathF == <<"f">>

\* the environment sections of the model's services: absent, the list form,
\* the mapping form
EnvSections ==
  { YNil,
    YList(<< YStr(<<"B", "=", "v">>), YStr(<<"A">>) >>),
    YMap(NameA :> YStr(<<"v">>)),
    YMap(NameC :> YInt(<<"1">>) @@ NameB :> YNil) }

\* the env_file fields: absent, one path, a list (with a repeated path and an
\* item that is no string)
EnvFileSections ==
  { YNil,
    YStr(PathE),
    YList(<< YStr(PathF), YStr(PathE), YInt(<<"1">>), YStr(PathF) >>) }

ServiceNames == {"web", "db"}

ServiceDefs == [Environment : EnvSections, EnvFile : EnvFileSections]

\* raw texts: no reference; a bare, a modified and a built-in reference
DocTexts ==
  { << >>,
    <<"$", "C", " ", "$", "{", "C", ":", "-", "x", "}", " ", "$", "P", "W", "D">> }

BadDoc == [valid |-> FALSE, services |-> [x \in {} |-> YNil], text |-> << >>]

Docs ==
  { [valid |-> TRUE, services |-> sv, text |-> t] :
      sv \in UNION {[S -> ServiceDefs] : S \in SUBSET ServiceNames}, t \in DocTexts }
    \cup {BadDoc}

NoDoc == [valid |-> TRUE, services |-> [x \in {} |-> YNil], text |-> << >>]

\* values of a Dockerfile ENV: empty, a literal, a path
DockerValues == { << >>, <<"v">>, <<"/">> }

SortedListOf(S) == SortStrings(CHOOSE p \in Perms(S) : TRUE)

\* the parse results of Dockerfiles that declare and reference the names of Keys
DockerInfos ==
  { [EnvVars |-> e, ArgVars |-> a, VariableRefs |-> SortedListOf(R)] :
      e \in EnvVarsOver(Keys, DockerValues), a \in EnvVarsOver(Keys, Values),
      R \in SUBSET Keys }

NoDockerInfo == [EnvVars |-> EmptyMap, ArgVars |-> EmptyMap, VariableRefs |-> << >>]

InitEnv ==
  /\ mode = "env"
  /\ env \in EnvVarsOver(Keys, Values)
  /\ example \in EnvVarsOver(Keys, Values)
  /\ doc = NoDoc /\ readable = {} /\ dockerInfo = NoDockerInfo

InitCompose ==
  /\ mode = "compose"
  /\ env \in EnvVarsOver(Keys, Values)
  /\ doc \in Docs
  /\ readable \in SUBSET {PathE, PathF}
  /\ example = EmptyMap /\ dockerInfo = NoDockerInfo

InitDockerfile ==
  /\ mode = "dockerfile"
  /\ env \in EnvVarsOver(Keys, {<<"v">>})
  /\ dockerInfo \in DockerInfos
  /\ example = EmptyMap /\ doc = NoDoc /\ readable = {}

NoFile == [readable |-> TRUE, lines |-> << >>]

\* no env file is being parsed
IdleEnvFile == file = NoFile /\ lineNo = 0 /\ fileVars = EmptyMap /\ fileErr = FALSE

\* the outcome of parseEnvironmentSection on one form, once it has run
NotParsed == [done |-> FALSE, vars |-> EmptyMap]

ParsedAs(v) == [done |-> TRUE, vars |-> v]

\* no environment section is being parsed
IdleSection ==
  /\ secContent = EmptyMap /\ secShape = YNil
  /\ secList = NotParsed /\ secMap = NotParsed /\ secOther = NotParsed

\* a path at which there is no file
AbsentFile == [exists |-> FALSE, readable |-> FALSE, data |-> << >>]

\* no compose file and no Dockerfile at their paths
NoComposeFile == [exists |-> FALSE, readable |-> FALSE, doc |-> NoDoc]

NoDockerFile == [exists |-> FALSE, info |-> NoDockerInfo]

\* no comparison is made a second time
IdleRepeat == again = NoResult

\* no audit runs
IdleAudit ==
  /\ composeFile = NoComposeFile /\ dockerFile = NoDockerFile
  /\ hasErrors = FALSE /\ auditPc = "idle"

\* no command runs
IdleCli ==
  /\ command = "none" /\ exampleFile = AbsentFile /\ envFile = AbsentFile
  /\ reported = NoResult /\ exitCode = NoResult

\* no env files are being merged: the merged set is given
IdleMerge == envFiles = << >> /\ envFileIdx = 1

\* no question has been put to a DockerfileEnvInfo
IdleQuery == allVars = NoResult /\ hasVar = NoResult

\* no Dockerfile is being parsed
IdleDockerfile ==
  /\ dockerfile = << >> /\ lineNum = 0 /\ currentInstruction = << >>
  /\ interpreted = << >> /\ warnings = << >>

Init ==
  /\ pc = "start"
  /\ composeInfo = NoResult
  /\ result = NoResult
  /\ hasIssues = FALSE
  /\ (InitEnv \/ InitCompose \/ InitDockerfile)
  /\ IdleEnvFile /\ IdleSection /\ IdleDockerfile /\ IdleQuery /\ IdleMerge /\ IdleCli /\ IdleAudit /\ IdleRepeat

(***************************************************************************)
(* The operations.                                                         *)
(***************************************************************************)
\* checker.CompareEnvVars(env, example)
CompareEnvVarsCall ==
  /\ mode = "env" /\ pc = "start"
  /\ \E perm \in Perms(DOMAIN env \cup DOMAIN example) :
       result' = CompareEnvVars(env, example, perm)
  /\ pc' = "compared"
  /\ UNCHANGED << mode, env, example, doc, readable, composeInfo, dockerInfo, hasIssues,
               otherThanCompare >>

\* parser.ParseComposeData(data), as CompareComposeWithEnv calls it
ParseComposeDataCall ==
  /\ mode = "compose" /\ pc = "start"
  /\ \E svcOrd \in Perms(DOMAIN doc.services), perm \in Perms(ReferencedVarSet(doc.text)) :
       composeInfo' = ParseComposeData(doc, svcOrd, perm)
  /\ pc' = IF doc.valid THEN "parsed" ELSE "failed"
  /\ UNCHANGED << mode, env, example, doc, readable, dockerInfo, result, hasIssues,
               otherThanCompare >>

\* compareComposeWithEnvVars(composeInfo, allEnvVars)
CompareComposeCall ==
  /\ mode = "compose" /\ pc = "parsed" /\ envFileIdx > Len(envFiles)
  /\ \E perm \in Perms(DOMAIN env \cup DOMAIN composeInfo.Variables
                         \cup Range(composeInfo.VariableRefs)) :
       result' = compareComposeWithEnvVars(composeInfo, env, readable, perm)
  /\ pc' = "compared"
  /\ UNCHANGED << mode, env, example, doc, readable, composeInfo, dockerInfo, hasIssues,
               otherThanCompare >>

\* compareDockerfileWithEnvVars(dockerfileInfo, allEnvVars), on a given info or
\* on the one ParseDockerfile returned
CompareDockerfileCall ==
  /\ mode = "dockerfile" /\ pc \in {"start", "parsed"} /\ envFileIdx > Len(envFiles)
  /\ \E perm \in Perms(DOMAIN env \cup DOMAIN dockerInfo.EnvVars \cup DOMAIN dockerInfo.ArgVars
                         \cup Range(dockerInfo.VariableRefs)) :
       result' = compareDockerfileWithEnvVars(dockerInfo, env, perm)
  /\ pc' = "compared"
  /\ UNCHANGED << mode, env, example, doc, readable, composeInfo, dockerInfo, hasIssues,
               otherThanCompare >>

\* result.HasIssues(), as the callers ask it of a result
HasIssuesCall ==
  /\ pc = "compared"
  /\ hasIssues' = CASE mode = "env" -> DiffHasIssues(result)
                    [] mode = "compose" -> ComposeHasIssues(result)
                    [] mode = "dockerfile" -> DockerfileHasIssues(result)
  /\ pc' = "done"
  /\ UNCHANGED << mode, env, example, doc, readable, composeInfo, dockerInfo, result,
               otherThanCompare >>

Next ==
  \/ CompareEnvVarsCall
  \/ ParseComposeDataCall
  \/ CompareComposeCall
  \/ CompareDockerfileCall
  \/ HasIssuesCall

Spec == Init /\ [][Next]_vars


(***************************************************************************)
(* Properties of the comparisons.                                          *)
(***************************************************************************)
Compared == pc \in {"compared", "done"}

\* list holds exactly the elements of S
ListsExactly(list, S) == Range(list) = S

\* C1: CompareEnvVars returns as Missing exactly the keys of example that are
\* no keys of env and as Extra exactly the keys of env that are no keys of
\* example, and env / example sets with the same keys and any other values
\* (the empty string included) get the same Missing and Extra.
C1_MissingExtraByKeyPresence ==
  (mode = "env" /\ Compared) =>
    /\ ListsExactly(result.Missing, DOMAIN example \ DOMAIN env)
    /\ ListsExactly(result.Extra, DOMAIN env \ DOMAIN example)
    /\ \A e2 \in [DOMAIN env -> Values], x2 \in [DOMAIN example -> Values] :
         \A perm \in Perms(DOMAIN env \cup DOMAIN example) :
           CompareEnvVars(e2, x2, perm) = result

\* C1 witness: a compared pair with a missing and an extra key, where a key of
\* env has the empty string as its value
C1_Witness ==
  /\ mode = "env" /\ pc = "compared"
  /\ result.Missing = << NameB >> /\ result.Extra = << NameA >>
  /\ env[NameA] = << >>

\* C2: Missing and Extra have no element in common, and both are empty exactly
\* when env and example have the same key set.
C2_DisjointAndEmptyIffSameKeys ==
  (mode = "env" /\ Compared) =>
    /\ Range(result.Missing) \cap Range(result.Extra) = {}
    /\ (Len(result.Missing) = 0 /\ Len(result.Extra) = 0) <=> (DOMAIN env = DOMAIN example)

\* C2 witness: two sets with the same non-empty key set and different values
C2_Witness ==
  /\ mode = "env" /\ pc = "compared"
  /\ DOMAIN env = DOMAIN example /\ DOMAIN env = Keys /\ env # example
  /\ result.Missing = << >> /\ result.Extra = << >>

NoDuplicates(list) == \A i, j \in 1..Len(list) : i # j => list[i] # list[j]

SortedNoDup(list) == IsSorted(list) /\ NoDuplicates(list)

\* C3: every string list of every comparison result is sorted ascending and
\* holds no element twice.
C3_ListsSortedNoDuplicates ==
  Compared =>
    CASE mode = "env" ->
           SortedNoDup(result.Missing) /\ SortedNoDup(result.Extra)
      [] mode = "compose" ->
           /\ SortedNoDup(result.MissingInEnv)
           /\ SortedNoDup(result.ExtraInEnv)
           /\ SortedNoDup(result.MissingEnvFiles)
           /\ \A svc \in DOMAIN result.ServiceBreakdown :
                SortedNoDup(result.ServiceBreakdown[svc])
      [] mode = "dockerfile" ->
           /\ SortedNoDup(result.MissingInEnv)
           /\ SortedNoDup(result.ExtraInEnv)
           /\ SortedNoDup(result.UnusedArgs)
           /\ SortedNoDup(result.HardcodedEnvs)
           /\ SortedNoDup(result.MissingArgDefaults)

\* C3 witness: a compose result whose lists hold several elements each, from
\* a document that names a path twice
C3_Witness ==
  /\ mode = "compose" /\ pc = "compared"
  /\ Len(result.MissingInEnv) >= 2
  /\ Len(result.MissingEnvFiles) = 2
  /\ \E svc \in DOMAIN result.ServiceBreakdown : Len(result.ServiceBreakdown[svc]) = 2

\* the lists a result holds
ListsOf(r) ==
  CASE mode = "env" -> { r.Missing, r.Extra }
    [] mode = "compose" ->
         { r.MissingInEnv, r.ExtraInEnv, r.MissingEnvFiles }
           \cup { r.ServiceBreakdown[svc] : svc \in DOMAIN r.ServiceBreakdown }
    [] mode = "dockerfile" ->
         { r.MissingInEnv, r.ExtraInEnv, r.UnusedArgs, r.HardcodedEnvs, r.MissingArgDefaults }

\* C4 as stated: HasIssues() is true exactly when some list of the result,
\* MissingArgDefaults included, is not empty.
C4_HasIssuesIffAnyList ==
  pc = "done" => (hasIssues <=> \E l \in ListsOf(result) : Len(l) > 0)

\* the lists HasIssues() is claimed to count, once the Dockerfile result's
\* MissingArgDefaults is left out
CountedListsOf(r) ==
  CASE mode = "env" -> { r.Missing, r.Extra }
    [] mode = "compose" ->
         { r.MissingInEnv, r.ExtraInEnv, r.MissingEnvFiles }
           \cup { r.ServiceBreakdown[svc] : svc \in DOMAIN r.ServiceBreakdown }
    [] mode = "dockerfile" ->
         { r.MissingInEnv, r.ExtraInEnv, r.UnusedArgs, r.HardcodedEnvs }

\* C4 as amended: HasIssues() is true exactly when some list of the result is
\* not empty, where the Dockerfile result's MissingArgDefaults is not counted.
C4_HasIssuesIffAnyCountedList ==
  pc = "done" => (hasIssues <=> \E l \in CountedListsOf(result) : Len(l) > 0)

\* C4 witness: a Dockerfile result whose only non-empty list is
\* MissingArgDefaults, for which HasIssues() returned false
C4_Witness ==
  /\ mode = "dockerfile" /\ pc = "done"
  /\ Len(result.MissingArgDefaults) > 0
  /\ Len(result.MissingInEnv) = 0 /\ Len(result.ExtraInEnv) = 0
  /\ Len(result.UnusedArgs) = 0 /\ Len(result.HardcodedEnvs) = 0
  /\ ~hasIssues


\* the paths one env_file field names: the string, or the strings of the list
PathsNamedBy(f) ==
  CASE f.tag = "str" -> { f.s }
    [] f.tag = "list" -> { f.items[i].s : i \in {j \in 1..Len(f.items) : f.items[j].tag = "str"} }
    [] OTHER -> {}

PathsNamedIn(d) == UNION { PathsNamedBy(d.services[svc].EnvFile) : svc \in DOMAIN d.services }

Parsed == mode = "compose" /\ pc \in {"parsed", "compared", "done"}

\* C8: EnvFiles holds every path a service's env_file names (string or list
\* form), each once and nothing else, and the list is the same whatever the
\* order in which the services are visited.
C8_EnvFilesExactOnceAndOrderFixed ==
  Parsed =>
    /\ ListsExactly(composeInfo.EnvFiles, PathsNamedIn(doc))
    /\ Len(composeInfo.EnvFiles) = Cardinality(PathsNamedIn(doc))
    /\ \A svcOrd \in Perms(DOMAIN doc.services) :
         ParseComposeData(doc, svcOrd, << >>).EnvFiles = composeInfo.EnvFiles

\* C8 witness: one service names a path as a string, the other names paths
\* in a list that repeats one, and the parse has listed each path once
C8_Witness ==
  /\ mode = "compose" /\ pc = "parsed"
  /\ DOMAIN doc.services = ServiceNames
  /\ doc.services["web"].EnvFile.tag = "str"
  /\ doc.services["db"].EnvFile.tag = "list"
  /\ composeInfo.EnvFiles = << PathE, PathF >>

ComposeCompared == mode = "compose" /\ Compared

\* the names GetAllEnvVars() is claimed to return
AllComposeNames == DOMAIN composeInfo.Variables \cup Range(composeInfo.VariableRefs)

\* C9: MissingInEnv is GetAllEnvVars() minus the keys of env and ExtraInEnv is
\* the keys of env minus GetAllEnvVars(), GetAllEnvVars() being the keys of
\* Variables together with VariableRefs; an env set with the same keys and
\* other values gets the same two lists.
C9_ComposeMissingExtraByKeyPresence ==
  ComposeCompared =>
    /\ ListsExactly(result.MissingInEnv, AllComposeNames \ DOMAIN env)
    /\ ListsExactly(result.ExtraInEnv, DOMAIN env \ AllComposeNames)
    /\ \A e2 \in [DOMAIN env -> Values] :
         LET r2 == compareComposeWithEnvVars(composeInfo, e2, readable,
                                             SortedListOf(DOMAIN env \cup AllComposeNames))
         IN  r2.MissingInEnv = result.MissingInEnv /\ r2.ExtraInEnv = result.ExtraInEnv

\* C9 witness: a name that is only referenced in the text and a name a
\* service declares are both missing, and a key of env is extra
C9_Witness ==
  /\ mode = "compose" /\ pc = "compared"
  /\ NameC \in Range(composeInfo.VariableRefs) /\ NameC \notin DOMAIN composeInfo.Variables
  /\ NameA \in DOMAIN composeInfo.Variables
  /\ result.MissingInEnv = << NameA, NameC >>
  /\ result.ExtraInEnv # << >>

\* the variables a service's own environment declares
DeclaredBy(svc) == DOMAIN parseEnvironmentSection(doc.services[svc].Environment)

\* C10: ServiceBreakdown has an entry for a service exactly when a variable of
\* that service's own environment is no key of env, the entry lists exactly
\* those variables, and no other service's variables enter it.
C10_ServiceBreakdownPerService ==
  ComposeCompared =>
    /\ DOMAIN result.ServiceBreakdown \subseteq DOMAIN doc.services
    /\ \A svc \in DOMAIN doc.services :
         /\ svc \in DOMAIN result.ServiceBreakdown <=> DeclaredBy(svc) \ DOMAIN env # {}
         /\ svc \in DOMAIN result.ServiceBreakdown =>
              ListsExactly(result.ServiceBreakdown[svc], DeclaredBy(svc) \ DOMAIN env)

\* C10 witness: two services declare variables; one misses none and has no
\* entry, the other has an entry that leaves out what the first declares
C10_Witness ==
  /\ mode = "compose" /\ pc = "compared"
  /\ DOMAIN composeInfo.ServiceVars = ServiceNames
  /\ DOMAIN result.ServiceBreakdown = {"db"}
  /\ DeclaredBy("web") \ DeclaredBy("db") # {}
  /\ DeclaredBy("db") \ DOMAIN env # DeclaredBy("db")


(***************************************************************************)
(* Variable references of a compose document: ParseComposeData on          *)
(* documents without services, whose raw text is put together from the     *)
(* pieces of the interpolation syntax.                                     *)
(***************************************************************************)
Fragments ==
  { <<"$">>, <<"$", "{">>, <<"}">>, <<":", "-">>, <<"A">>, <<"B">>, <<"b">>,
    <<"P", "W", "D">> }

RECURSIVE TextsOf(_)
\* the texts of at most n fragments
TextsOf(n) ==
  IF n = 0 THEN { << >> }
  ELSE TextsOf(n - 1) \cup { t \o f : t \in TextsOf(n - 1), f \in Fragments }

RefDocs == { [valid |-> TRUE, services |-> [x \in {} |-> YNil], text |-> t] : t \in TextsOf(MaxFrags) }

InitRefs ==
  /\ mode = "compose" /\ pc = "start"
  /\ doc \in RefDocs
  /\ env = EmptyMap /\ example = EmptyMap /\ readable = {} /\ dockerInfo = NoDockerInfo
  /\ composeInfo = NoResult /\ result = NoResult /\ hasIssues = FALSE
  /\ IdleEnvFile /\ IdleSection /\ IdleDockerfile /\ IdleQuery /\ IdleMerge /\ IdleCli /\ IdleAudit /\ IdleRepeat

NextRefs == ParseComposeDataCall

SpecRefs == InitRefs /\ [][NextRefs]_vars

\* a character a variable name can start with / go on with
IsIdentStart(c) == c \in Range(Upper) \cup Range(Lower) \cup {"_"}
IsIdentChar(c) == IsIdentStart(c) \/ c \in Range(Digits)

\* the index after the name that starts at i: the name runs as far as name
\* characters follow
IdentEnd(s, i) ==
  CHOOSE e \in (i + 1)..(Len(s) + 1) :
    /\ \A j \in i..(e - 1) : IsIdentChar(s[j])
    /\ e = Len(s) + 1 \/ ~IsIdentChar(s[e])

\* the names the text references as $NAME
BareReferences(s) ==
  { SubSeq(s, i + 1, IdentEnd(s, i + 1) - 1) :
      i \in { i \in 1..(Len(s) - 1) : s[i] = "$" /\ IsIdentStart(s[i + 1]) } }

\* the names the text references as ${NAME} or as ${NAME<modifier>}
BracedReferences(s) ==
  { SubSeq(s, i + 2, IdentEnd(s, i + 2) - 1) :
      i \in { i \in 1..(Len(s) - 2) :
                /\ s[i] = "$" /\ s[i + 1] = "{" /\ IsIdentStart(s[i + 2])
                /\ \E k \in IdentEnd(s, i + 2)..Len(s) : s[k] = "}" } }

References(s) == BareReferences(s) \cup BracedReferences(s)

\* an upper-case name: [A-Z_][A-Z0-9_]*
IsUpperName(n) == Len(n) > 0 /\ IsNameStart(n[1]) /\ \A i \in 1..Len(n) : IsNameChar(n[i])

\* C7: VariableRefs is sorted and duplicate-free; every name in it is the
\* full name of a reference in the text and no built-in; and every referenced
\* (upper-case) name that is no built-in is in it.
C7_VariableRefsExactlyTheReferencedNames ==
  (mode = "compose" /\ pc = "parsed") =>
    /\ SortedNoDup(composeInfo.VariableRefs)
    /\ Range(composeInfo.VariableRefs) \subseteq References(doc.text) \ InternalVars
    /\ { n \in References(doc.text) : IsUpperName(n) } \ InternalVars
         \subseteq Range(composeInfo.VariableRefs)


(***************************************************************************)
(* parser: ParseEnvFile.  The scanner delivers the lines of the file one   *)
(* by one; each delivered line is trimmed, skipped or stored.              *)
(***************************************************************************)
\* the value with one pair of enclosing quotes removed, as lines 41-46 do
StripQuotes(value) ==
  IF /\ Len(value) >= 2
     /\ \/ HasPrefix(value, <<"\"">>) /\ HasSuffix(value, <<"\"">>)
        \/ HasPrefix(value, <<"'">>) /\ HasSuffix(value, <<"'">>)
  THEN SubSeq(value, 2, Len(value) - 1)
  ELSE value

\* a plausible slip: the line is split at its last '='
ParseEnvLineSplitLast(vs, text) ==
  LET line == TrimSpace(text)
      last == CHOOSE i \in 1..Len(line) : line[i] = "=" /\ \A j \in (i + 1)..Len(line) : line[j] # "="
  IN  IF line = << >> \/ HasPrefix(line, <<"#">>) THEN vs
      ELSE IF ~ContainsChar(line, "=") THEN vs
      ELSE Put(vs, TrimSpace(SubSeq(line, 1, last - 1)),
               StripQuotes(TrimSpace(SubSeq(line, last + 1, Len(line)))))

\* the body of the scanner loop of ParseEnvFile: vars after one more line
ParseEnvLine(vs, text) ==
  LET line == TrimSpace(text)
  IN  IF line = << >> \/ HasPrefix(line, <<"#">>) THEN vs
      ELSE IF ~ContainsChar(line, "=") THEN vs
      ELSE Put(vs, TrimSpace(BeforeFirst(line, "=")),
               StripQuotes(TrimSpace(AfterFirst(line, "="))))

\* a file os.Open cannot open
Unreadable == [readable |-> FALSE, lines |-> << >>]

ReadableFile(ls) == [readable |-> TRUE, lines |-> ls]

\* the characters of a line that matter to the parser, and a letter
LineAlphabet == { " ", "#", "=", "\"", "'", "a" }

LinesUpTo(n) == UNION { [1..k -> LineAlphabet] : k \in 0..n }

\* plain lines: assignments to two names (one of them twice), an empty
\* value, a quoted value with spaces around the '=', a comment, no '='
PlainLines ==
  { <<"A", "=", "1">>, <<"A", "=", "2">>, <<"B", "=">>,
    <<"B", " ", "=", " ", "'", "x", "'">>, <<"#", "A", "=", "3">>, <<"A">> }

FilesOfPlainLines == UNION { [1..k -> PlainLines] : k \in 2..MaxLines }

\* the files of the model: any one line over the line alphabet, several
\* plain lines, and a file that cannot be opened
EnvFiles ==
  { ReadableFile(<< l >>) : l \in LinesUpTo(MaxLineLen) }
    \cup { ReadableFile(ls) : ls \in FilesOfPlainLines } \cup {Unreadable}

\* no comparison is being made
IdleCompare ==
  /\ mode = "none" /\ pc = "idle"
  /\ env = EmptyMap /\ example = EmptyMap /\ doc = NoDoc /\ readable = {}
  /\ composeInfo = NoResult /\ dockerInfo = NoDockerInfo
  /\ result = NoResult /\ hasIssues = FALSE

InitEnvFile ==
  /\ file \in EnvFiles
  /\ lineNo = 0 /\ fileVars = EmptyMap /\ fileErr = FALSE
  /\ IdleCompare /\ IdleSection /\ IdleDockerfile /\ IdleQuery /\ IdleMerge /\ IdleCli /\ IdleAudit /\ IdleRepeat

\* os.Open fails: ParseEnvFile returns nil and the error
OpenFails ==
  /\ ~file.readable /\ ~fileErr
  /\ fileErr' = TRUE
  /\ UNCHANGED << file, lineNo, fileVars, compareVars, sectionVars, parseDockerfileVars, queryVars, mergeVars, cliVars, auditVars, repeatVars >>

\* one round of "for scanner.Scan()"
ScanLine ==
  /\ file.readable /\ lineNo < Len(file.lines)
  /\ lineNo' = lineNo + 1
  /\ fileVars' = ParseEnvLine(fileVars, file.lines[lineNo + 1])
  /\ UNCHANGED << file, fileErr, compareVars, sectionVars, parseDockerfileVars, queryVars, mergeVars, cliVars, auditVars, repeatVars >>

NextEnvFile == OpenFails \/ ScanLine

SpecEnvFile == InitEnvFile /\ [][NextEnvFile]_vars

\* the positions of the characters of l that are no white space
Inked(l) == { i \in 1..Len(l) : l[i] # " " }

Least(S) == CHOOSE i \in S : \A j \in S : i <= j
Greatest(S) == CHOOSE i \in S : \A j \in S : j <= i

\* l from its first to its last character that is no white space among the
\* positions lo..hi, or the empty string when there is none
InkBetween(l, lo, hi) ==
  LET ink == Inked(l) \cap lo..hi
  IN  IF ink = {} THEN << >> ELSE SubSeq(l, Least(ink), Greatest(ink))

EqualSigns(l) == { i \in 1..Len(l) : l[i] = "=" }

\* the rule's verdict on a line: it is ignored
Ignored(l) == Inked(l) = {} \/ l[Least(Inked(l))] = "#" \/ EqualSigns(l) = {}

\* the rule's key and value of a line that is not ignored
RuleKey(l) == InkBetween(l, 1, Least(EqualSigns(l)) - 1)

RuleRawValue(l) == InkBetween(l, Least(EqualSigns(l)) + 1, Len(l))

Quoted(v, q) == Len(v) >= 2 /\ v[1] = q /\ v[Len(v)] = q

RuleValue(l) ==
  LET v == RuleRawValue(l)
  IN  IF Quoted(v, "\"") \/ Quoted(v, "'")
      THEN [i \in 1..(Len(v) - 2) |-> v[i + 1]]
      ELSE v

\* the mapping the rule gives for the first n lines of f: each key of a line
\* that is not ignored, with the value of the last such line
RuleVars(f, n) ==
  LET kept == { i \in 1..n : ~Ignored(f[i]) }
  IN  [k \in { RuleKey(f[i]) : i \in kept } |->
         RuleValue(f[Greatest({ i \in kept : RuleKey(f[i]) = k })])]

\* C5: after every line of a readable file, the variables collected are those
\* of the rule: blank, '#' and '='-less lines ignored; key and value the
\* trimmed texts before and after the first '='; one pair of enclosing equal
\* quotes removed from a value of two characters or more; the last line of a
\* key wins.
C5_ParseEnvFileFollowsTheRule ==
  file.readable => fileVars = RuleVars(file.lines, lineNo) /\ ~fileErr

\* C5 witness: a file read to its end in which a later line has replaced the
\* value of a key and a quoted value lost its quotes
C5_Witness ==
  /\ file.readable /\ lineNo = Len(file.lines) /\ lineNo = 3
  /\ file.lines[1] = <<"A", "=", "1">>
  /\ file.lines[2] = <<"B", " ", "=", " ", "'", "x", "'">>
  /\ file.lines[3] = <<"A", "=", "2">>
  /\ fileVars = (<<"A">> :> <<"2">> @@ <<"B">> :> <<"x">>)


(***************************************************************************)
(* parser: parseEnvironmentSection on the two written forms of one         *)
(* content, and on values of other shapes.                                 *)
(***************************************************************************)
\* how the value of a key is written: not at all (the bare key of a list,
\* null in a mapping), as a plain scalar or as a quoted scalar
Bare == [kind |-> "bare", text |-> << >>]
Plain(t) == [kind |-> "plain", text |-> t]
QuotedScalar(t) == [kind |-> "quoted", text |-> t]

WrittenValues ==
  { Bare,
    Plain(<<"1">>), Plain(<<"1", ".", "0">>), Plain(<<"1", ".", "5">>), Plain(<<"x">>),
    Plain(<<"x", "=", "1">>),
    QuotedScalar(<< >>), QuotedScalar(<<" ", "x">>), QuotedScalar(<<"1">>) }

IsDigits(t) == Len(t) > 0 /\ \A i \in 1..Len(t) : t[i] \in Range(Digits)

\* the place of the decimal point of a text "digits.digits", or 0
PointOf(t) ==
  IF \E i \in 2..(Len(t) - 1) :
       /\ t[i] = "."
       /\ IsDigits(SubSeq(t, 1, i - 1)) /\ IsDigits(SubSeq(t, i + 1, Len(t)))
  THEN CHOOSE i \in 2..(Len(t) - 1) : t[i] = "."
  ELSE 0

\* the value yaml.Unmarshal decodes a written scalar into: a quoted scalar is
\* a string; a plain one is an int, a float64 or a string by its looks
YamlScalar(w) ==
  IF w.kind = "bare" THEN YNil
  ELSE IF w.kind = "quoted" THEN YStr(w.text)
  ELSE IF IsDigits(w.text) THEN YInt(w.text)
  ELSE IF PointOf(w.text) > 0
       THEN YFloat(SubSeq(w.text, 1, PointOf(w.text) - 1),
                   SubSeq(w.text, PointOf(w.text) + 1, Len(w.text)))
       ELSE YStr(w.text)

\* the item of the list form for key k: "KEY" or "KEY=VALUE"
ListItem(k, w) == IF w.kind = "bare" THEN YStr(k) ELSE YStr(k \o <<"=">> \o w.text)

RECURSIVE ListItems(_, _)
ListItems(content, ord) ==
  IF Len(ord) = 0 THEN << >>
  ELSE << ListItem(Head(ord), content[Head(ord)]) >> \o ListItems(content, Tail(ord))

\* the content as a list, its items in the order ord
ListForm(content, ord) == YList(ListItems(content, ord))

\* the content as a mapping
MapForm(content) == YMap([k \in DOMAIN content |-> YamlScalar(content[k])])

SectionContents == EnvVarsOver(Keys, WrittenValues)

\* decoded environment values that are neither a list nor a mapping
OtherShapes == { YNil, YStr(<<"A", "=", "1">>), YInt(<<"1">>), YFloat(<<"1">>, <<"5">>) }

InitEnvSection ==
  /\ secContent \in SectionContents
  /\ secShape \in OtherShapes
  /\ secList = NotParsed /\ secMap = NotParsed /\ secOther = NotParsed
  /\ IdleCompare /\ IdleEnvFile /\ IdleDockerfile /\ IdleQuery /\ IdleMerge /\ IdleCli /\ IdleAudit /\ IdleRepeat

\* the service's environment is the list form of the content
ParseListForm ==
  /\ ~secList.done
  /\ \E ord \in Perms(DOMAIN secContent) :
       secList' = ParsedAs(parseEnvironmentSection(ListForm(secContent, ord)))
  /\ UNCHANGED << secContent, secShape, secMap, secOther, compareVars, envFileVars, parseDockerfileVars, queryVars, mergeVars, cliVars, auditVars, repeatVars >>

\* the service's environment is the mapping form of the content
ParseMapForm ==
  /\ ~secMap.done
  /\ secMap' = ParsedAs(parseEnvironmentSection(MapForm(secContent)))
  /\ UNCHANGED << secContent, secShape, secList, secOther, compareVars, envFileVars, parseDockerfileVars, queryVars, mergeVars, cliVars, auditVars, repeatVars >>

\* the service's environment is of another shape
ParseOtherShape ==
  /\ ~secOther.done
  /\ secOther' = ParsedAs(parseEnvironmentSection(secShape))
  /\ UNCHANGED << secContent, secShape, secList, secMap, compareVars, envFileVars, parseDockerfileVars, queryVars, mergeVars, cliVars, auditVars, repeatVars >>

NextEnvSection == ParseListForm \/ ParseMapForm \/ ParseOtherShape

SpecEnvSection == InitEnvSection /\ [][NextEnvSection]_vars

ReadAlike(w) ==
  \/ w.kind = "bare"
  \/ w.kind = "plain" /\ PointOf(w.text) = 0
  \/ w.kind = "quoted" /\ (w.text = << >> \/ (w.text[1] # " " /\ w.text[Len(w.text)] # " "))

C11_MissingEnvFilesAreTheUnparsable ==
  ComposeCompared =>
    /\ ListsExactly(result.MissingEnvFiles, PathsNamedIn(doc) \ readable)
    /\ NoDuplicates(result.MissingEnvFiles)

\* C11 witness: a service has env_file: e, a second path f is named and
\* parses, there is no readable e, and MissingEnvFiles = [e]
C11_Witness ==
  /\ ComposeCompared
  /\ \E svc \in DOMAIN doc.services : doc.services[svc].EnvFile = YStr(PathE)
  /\ PathsNamedIn(doc) = {PathE, PathF} /\ readable = {PathF}
  /\ result.MissingEnvFiles = << PathE >>


(***************************************************************************)
(* ParseDockerfile followed by the comparison, on Dockerfiles of a few     *)
(* lines.                                                                  *)
(***************************************************************************)
\* the lines a Dockerfile of the model is made of:
\*   ARG A                  an ARG without a default
\*   ARG A=1                an ARG with a default
\*   arg  b=""              a lower-case ARG with a quoted empty default
\*   ARG USER               an ARG named as a system variable
\*   ARG A B                an ARG with two words (an error, skipped)
\*   ENV C=${A}             an ENV whose value is a reference
\*   ENV B v w              an ENV in the legacy form
\*   ENV C='x y' A=/        an ENV with two pairs, one quoted
\*   ENV B=1 \              an instruction continued on the next line
\*   RUN $A $USER $b        references: a name, a system variable, a lower-case name
\*   # ${C:-x} $Ab          a comment with references that go on after the name
\*   (empty)                an empty line
DockerLines ==
  {
    <<"A", "R", "G", " ", "A">>,
    <<"A", "R", "G", " ", "A", "=", "1">>,
    <<"a", "r", "g", " ", " ", "b", "=", "\"", "\"">>,
    <<"A", "R", "G", " ", "U", "S", "E", "R">>,
    <<"A", "R", "G", " ", "A", " ", "B">>,
    <<"E", "N", "V", " ", "C", "=", "$", "{", "A", "}">>,
    <<"E", "N", "V", " ", "B", " ", "v", " ", "w">>,
    <<"E", "N", "V", " ", "C", "=", "'", "x", " ", "y", "'", " ", "A", "=", "/">>,
    <<"E", "N", "V", " ", "B", "=", "1", " ", "\\">>,
    <<"R", "U", "N", " ", "$", "A", " ", "$", "U", "S", "E", "R", " ", "$", "b">>,
    <<"#", " ", "$", "{", "C", ":", "-", "x", "}", " ", "$", "A", "b">>,
    <<>> }

Dockerfiles == UNION { [1..n -> DockerLines] : n \in 0..MaxDockerLines }

\* the merged env sets a parsed Dockerfile is compared with
DockerfileEnvs == { EmptyMap, NameA :> <<"v">>, NameB :> << >> @@ <<"b">> :> <<"v">> }

InitParseDockerfile ==
  /\ mode = "dockerfile" /\ pc = "scanning"
  /\ dockerfile \in Dockerfiles
  /\ lineNum = 0 /\ currentInstruction = << >>
  /\ interpreted = << >> /\ warnings = << >>
  /\ dockerInfo = NoDockerInfo
  /\ env \in DockerfileEnvs
  /\ example = EmptyMap /\ doc = NoDoc /\ readable = {}
  /\ composeInfo = NoResult /\ result = NoResult /\ hasIssues = FALSE
  /\ IdleEnvFile /\ IdleSection /\ IdleQuery /\ IdleMerge /\ IdleCli /\ IdleAudit /\ IdleRepeat

\* one round of "for scanner.Scan()" of ParseDockerfile
ScanDockerfile ==
  /\ mode = "dockerfile" /\ pc = "scanning" /\ lineNum < Len(dockerfile)
  /\ lineNum' = lineNum + 1
  /\ LET text == dockerfile[lineNum + 1]
         after == ScanDockerfileLine(text, dockerInfo, currentInstruction)
         whole == currentInstruction \o TrimSpace(text)
     IN  /\ dockerInfo' = after[1] /\ currentInstruction' = after[2]
         /\ interpreted' = IF CompletesInstruction(text) THEN Append(interpreted, whole)
                           ELSE interpreted
         /\ warnings' = IF CompletesInstruction(text) /\ InstructionFails(whole)
                        THEN Append(warnings, lineNum + 1)
                        ELSE warnings
  /\ UNCHANGED << mode, pc, env, example, doc, readable, composeInfo, result, hasIssues,
               dockerfile, envFileVars, sectionVars, queryVars, mergeVars, cliVars, auditVars, repeatVars >>

\* the end of ParseDockerfile: the references are taken from the whole content
FinishParseDockerfile ==
  /\ mode = "dockerfile" /\ pc = "scanning" /\ lineNum = Len(dockerfile)
  /\ \E perm \in Perms(DockerfileVarSet(JoinLines(dockerfile))) :
       dockerInfo' =
         [dockerInfo EXCEPT !.VariableRefs =
                              extractDockerfileVariableRefs(JoinLines(dockerfile), perm)]
  /\ pc' = "parsed"
  /\ UNCHANGED << mode, env, example, doc, readable, composeInfo, result, hasIssues,
               parseDockerfileVars, envFileVars, sectionVars, queryVars, mergeVars, cliVars, auditVars, repeatVars >>

NextParseDockerfile ==
  \/ ScanDockerfile
  \/ FinishParseDockerfile
  \/ CompareDockerfileCall
  \/ HasIssuesCall

SpecDockerfile == InitParseDockerfile /\ [][NextParseDockerfile]_vars

\* the names the ARG lines of the model declare
ArgNames == { NameA, <<"b">>, <<"U", "S", "E", "R">> }

\* line is "ARG NAME", in either letter case and with one or two spaces
IsBareArg(line, name) ==
  \E word \in { <<"A", "R", "G">>, <<"a", "r", "g">> }, gap \in { <<" ">>, <<" ", " ">> } :
    line = word \o gap \o name

DockerfileParsed == mode = "dockerfile" /\ pc \in {"parsed", "compared", "done"}

DockerfileCompared == mode = "dockerfile" /\ pc \in {"compared", "done"}

\* C12: when the scanner delivers a complete instruction "ARG NAME" (no '='),
\* NAME is a key of ArgVars afterwards and its value is the empty string; and
\* MissingArgDefaults of the comparison is exactly the set of ARG names whose
\* stored value is the empty string.
C12_BareArgStoredEmptyAndReported ==
  /\ [][ \A name \in ArgNames :
           ( /\ mode = "dockerfile" /\ pc = "scanning" /\ lineNum' = lineNum + 1
             /\ currentInstruction = << >>
             /\ IsBareArg(dockerfile[lineNum'], name) )
           => ( /\ name \in DOMAIN dockerInfo'.ArgVars
                /\ dockerInfo'.ArgVars[name] = << >> ) ]_vars
  /\ [](DockerfileCompared =>
          /\ ListsExactly(result.MissingArgDefaults,
                          { n \in DOMAIN dockerInfo.ArgVars : dockerInfo.ArgVars[n] = << >> })
          /\ NoDuplicates(result.MissingArgDefaults))

\* C12 witness: the file declares ARG A (no default) and ARG b="" and the
\* comparison has listed A and b under MissingArgDefaults
C12_Witness ==
  /\ DockerfileCompared
  /\ \E i \in 1..Len(dockerfile) : IsBareArg(dockerfile[i], NameA)
  /\ dockerInfo.ArgVars[NameA] = << >>
  /\ result.MissingArgDefaults = << NameA, <<"b">> >>

\* the whole content of the Dockerfile, as os.ReadFile gives it
DockerfileContent == JoinLines(dockerfile)

C14_MissingInEnvAreReferencedNames ==
  DockerfileCompared =>
    ListsExactly(result.MissingInEnv,
                 Range(dockerInfo.VariableRefs) \ (DOMAIN dockerInfo.EnvVars \cup DOMAIN env))

\* C14, amended: MissingInEnv holds exactly the names that are in
\* VariableRefs or declared by an ARG instruction and are keys of neither the
\* Dockerfile's ENV declarations nor the merged env set; an ENV-declared
\* name is never listed, nor is a name that is neither referenced nor an ARG.
C14_MissingInEnvAreReferencedOrArgNames ==
  DockerfileCompared =>
    /\ ListsExactly(result.MissingInEnv,
                    (Range(dockerInfo.VariableRefs) \cup DOMAIN dockerInfo.ArgVars)
                      \ (DOMAIN dockerInfo.EnvVars \cup DOMAIN env))
    /\ \A name \in Range(result.MissingInEnv) :
         /\ name \notin DOMAIN dockerInfo.EnvVars
         /\ name \in Range(dockerInfo.VariableRefs) \/ name \in DOMAIN dockerInfo.ArgVars

\* C14 witness: A is referenced and in neither set, C is referenced and
\* declared by ENV, the env set lacks both: MissingInEnv = [A]
C14_Witness ==
  /\ DockerfileCompared
  /\ dockerfile = << <<"E", "N", "V", " ", "C", "=", "$", "{", "A", "}">>,
                     <<"#", " ", "$", "{", "C", ":", "-", "x", "}", " ", "$", "A", "b">> >>
  /\ dockerInfo.VariableRefs = << NameA, NameC >>
  /\ NameC \in DOMAIN dockerInfo.EnvVars
  /\ DOMAIN env = {}
  /\ result.MissingInEnv = << NameA >>


(***************************************************************************)
(* The comparison of a Dockerfile whose ENV instructions give values of    *)
(* many kinds.                                                             *)
(***************************************************************************)
\* ENV values: empty, a literal, words of the fixed list in several letter
\* cases, a path, a URL, a reference, a literal that holds a reference
HardcodedValues ==
  {
    <<>>,
    <<"v">>,
    <<"C">>,
    <<"c">>,
    <<"e", "n", "_", "U", "S">>,
    <<"E", "N", "_", "u", "s">>,
    <<"P", "r", "o", "d", "u", "c", "t", "i", "o", "n">>,
    <<"T", "R", "U", "E">>,
    <<"/", "x">>,
    <<"a", ":", "/", "/", "b">>,
    <<"$", "{", "A", "}">>,
    <<"x", "$", "{", "A", "}">> }

InitHardcoded ==
  /\ mode = "dockerfile" /\ pc = "start"
  /\ \E e \in EnvVarsOver(Keys, HardcodedValues) :
       dockerInfo = [EnvVars |-> e, ArgVars |-> EmptyMap, VariableRefs |-> << >>]
  /\ env \in EnvVarsOver(Keys, {<<"v">>})
  /\ example = EmptyMap /\ doc = NoDoc /\ readable = {}
  /\ composeInfo = NoResult /\ result = NoResult /\ hasIssues = FALSE
  /\ IdleEnvFile /\ IdleSection /\ IdleDockerfile /\ IdleQuery /\ IdleMerge /\ IdleCli /\ IdleAudit /\ IdleRepeat

NextHardcoded == CompareDockerfileCall \/ HasIssuesCall

SpecHardcoded == InitHardcoded /\ [][NextHardcoded]_vars

\* the words a constant is said to be one of
FixedWords == { ObviousConstants[i] : i \in 1..Len(ObviousConstants) }

\* the same letters, whatever their case
SameIgnoringCase(a, b) ==
  /\ Len(a) = Len(b)
  /\ \A i \in 1..Len(a) : ToLowerChar(a[i]) = ToLowerChar(b[i])

\* value is an obvious constant as stated: one of the fixed words in any
\* letter case, or starting with '/', or holding '://', or starting with '${'
StatedObviousConstant(value) ==
  \/ \E w \in FixedWords : SameIgnoringCase(value, w)
  \/ Len(value) >= 1 /\ value[1] = "/"
  \/ \E i \in 1..(Len(value) - 2) : SubSeq(value, i, i + 2) = <<":", "/", "/">>
  \/ Len(value) >= 2 /\ value[1] = "$" /\ value[2] = "{"

\* C15: HardcodedEnvs holds exactly the ENV names whose value is not empty
\* and is no obvious constant (a fixed word in any letter case, a value that
\* starts with '/', holds '://' or starts with '${').
C15_HardcodedEnvsByTheHeuristic ==
  DockerfileCompared =>
    ListsExactly(result.HardcodedEnvs,
                 { n \in DOMAIN dockerInfo.EnvVars :
                     /\ dockerInfo.EnvVars[n] # << >>
                     /\ ~StatedObviousConstant(dockerInfo.EnvVars[n]) })


(***************************************************************************)
(* GetAllVars and HasVar of a DockerfileEnvInfo.                           *)
(***************************************************************************)
\* the names HasVar is asked about: the names of the infos and others
ProbedNames == Range(AllNames)

InitQuery ==
  /\ mode = "dockerfile" /\ pc = "start"
  /\ dockerInfo \in DockerInfos
  /\ allVars = NoResult /\ hasVar = NoResult
  /\ env = EmptyMap /\ example = EmptyMap /\ doc = NoDoc /\ readable = {}
  /\ composeInfo = NoResult /\ result = NoResult /\ hasIssues = FALSE
  /\ IdleEnvFile /\ IdleSection /\ IdleDockerfile /\ IdleMerge /\ IdleCli /\ IdleAudit /\ IdleRepeat

\* dockerfileInfo.GetAllVars()
GetAllVarsCall ==
  /\ allVars = NoResult
  /\ \E perm \in Perms(DOMAIN dockerInfo.EnvVars \cup DOMAIN dockerInfo.ArgVars
                         \cup Range(dockerInfo.VariableRefs)) :
       allVars' = [list |-> GetAllVars(dockerInfo, perm)]
  /\ UNCHANGED << hasVar, compareVars, envFileVars, sectionVars, parseDockerfileVars, mergeVars, cliVars, auditVars, repeatVars >>

\* dockerfileInfo.HasVar(name)
HasVarCall ==
  /\ hasVar = NoResult
  /\ \E name \in ProbedNames :
       hasVar' = [name |-> name, answer |-> HasVar(dockerInfo, name)]
  /\ UNCHANGED << allVars, compareVars, envFileVars, sectionVars, parseDockerfileVars, mergeVars, cliVars, auditVars, repeatVars >>

NextQuery == GetAllVarsCall \/ HasVarCall

SpecQuery == InitQuery /\ [][NextQuery]_vars

\* the names of an info: ENV keys, ARG keys and referenced names
NamesOf(d) == DOMAIN d.EnvVars \cup DOMAIN d.ArgVars \cup Range(d.VariableRefs)

\* C16: GetAllVars() returns exactly the keys of EnvVars, the keys of ArgVars
\* and the elements of VariableRefs, sorted ascending and each once; HasVar
\* answers true exactly for those names.
C16_GetAllVarsIsTheUnionAndHasVarAgrees ==
  /\ allVars # NoResult =>
       /\ ListsExactly(allVars.list, NamesOf(dockerInfo))
       /\ SortedNoDup(allVars.list)
  /\ hasVar # NoResult => (hasVar.answer <=> hasVar.name \in NamesOf(dockerInfo))

\* C16 witness: A is an ENV key and a referenced name, B an ARG key;
\* GetAllVars() returned [A, B] and HasVar(C) answered false
C16_Witness ==
  /\ DOMAIN dockerInfo.EnvVars = {NameA} /\ DOMAIN dockerInfo.ArgVars = {NameB}
  /\ dockerInfo.VariableRefs = << NameA >>
  /\ allVars # NoResult /\ allVars.list = << NameA, NameB >>
  /\ hasVar # NoResult /\ hasVar.name = NameC /\ ~hasVar.answer


(***************************************************************************)
(* The merge of the supplied env files in CompareComposeWithEnv and        *)
(* CompareDockerfileWithEnv: the loop runs after the compose file or the   *)
(* Dockerfile is parsed and before the comparison.                         *)
(***************************************************************************)
\* what parser.ParseEnvFile returns for a supplied file
FailedFile == [err |-> TRUE, vars |-> EmptyMap]

ParsedFile(vs) == [err |-> FALSE, vars |-> vs]

SuppliedFiles == {FailedFile} \cup { ParsedFile(vs) : vs \in EnvVarsOver(Keys, Values) }

SuppliedLists == UNION { [1..n -> SuppliedFiles] : n \in 0..MaxEnvFiles }

\* the parse of a compose file of one service that sets A and references C
MergeComposeInfo ==
  [Variables |-> NameA :> <<"v">>, ServiceVars |-> "web" :> (NameA :> <<"v">>),
   EnvFiles |-> << >>, VariableRefs |-> << NameC >>]

\* the parse of a Dockerfile that declares ARG A and references A and C
MergeDockerInfo ==
  [EnvVars |-> EmptyMap, ArgVars |-> NameA :> << >>, VariableRefs |-> << NameA, NameC >>]

InitMerge ==
  /\ mode \in {"compose", "dockerfile"} /\ pc = "parsed"
  /\ composeInfo = (IF mode = "compose" THEN MergeComposeInfo ELSE NoResult)
  /\ dockerInfo = (IF mode = "dockerfile" THEN MergeDockerInfo ELSE NoDockerInfo)
  /\ envFiles \in SuppliedLists /\ envFileIdx = 1
  /\ env = EmptyMap /\ example = EmptyMap /\ doc = NoDoc /\ readable = {}
  /\ result = NoResult /\ hasIssues = FALSE
  /\ IdleEnvFile /\ IdleSection /\ IdleDockerfile /\ IdleQuery /\ IdleCli /\ IdleAudit /\ IdleRepeat

\* one round of "for _, envFile := range envFiles": a file that fails to
\* parse is skipped, the variables of another are merged into allEnvVars
MergeEnvFile ==
  /\ mode \in {"compose", "dockerfile"} /\ pc = "parsed"
  /\ envFileIdx <= Len(envFiles)
  /\ env' = IF envFiles[envFileIdx].err THEN env
            ELSE MergeInto(env, envFiles[envFileIdx].vars)
  /\ envFileIdx' = envFileIdx + 1
  /\ UNCHANGED << mode, pc, example, doc, readable, composeInfo, dockerInfo, result,
               hasIssues, envFiles, envFileVars, sectionVars, parseDockerfileVars,
               queryVars, cliVars, auditVars, repeatVars >>

NextMerge == MergeEnvFile \/ CompareComposeCall \/ CompareDockerfileCall \/ HasIssuesCall

SpecMerge == InitMerge /\ [][NextMerge]_vars

\* the supplied files that parse
ParsedOnes(fs) == { i \in 1..Len(fs) : ~fs[i].err }

\* the last supplied file that parses and holds k
LastWith(fs, k) == Greatest({ i \in ParsedOnes(fs) : k \in DOMAIN fs[i].vars })

\* the merged set as the rule states it
MergedByRule(fs) ==
  [k \in UNION { DOMAIN fs[i].vars : i \in ParsedOnes(fs) } |-> fs[LastWith(fs, k)].vars[k]]

\* C17: the merged set is accumulated in the supplied order: after each file
\* its keys are the union of the keys of the files that parsed so far, a key
\* of several such files has the value of the last of them, a file that fails
\* to parse contributes nothing, and the comparison is made on the merged
\* set of all files and returns a result, not an error.
C17_MergeInSuppliedOrderLastWins ==
  /\ envFileIdx \in 1..(Len(envFiles) + 1)
  /\ env = MergedByRule(SubSeq(envFiles, 1, envFileIdx - 1))
  /\ Compared => /\ env = MergedByRule(envFiles)
                 /\ result # NoResult /\ ~IsError(result)
                 /\ ListsExactly(result.ExtraInEnv, DOMAIN MergedByRule(envFiles) \ {NameA, NameC})
                 /\ ListsExactly(result.MissingInEnv, {NameA, NameC} \ DOMAIN MergedByRule(envFiles))

\* C17 witness: the first file gives A=v and B=v, the second gives A the
\* empty value: the comparison ran on A empty and B=v
C17_Witness ==
  /\ Compared /\ Len(envFiles) = 2
  /\ envFiles[1] = ParsedFile(NameA :> <<"v">> @@ NameB :> <<"v">>)
  /\ envFiles[2] = ParsedFile(NameA :> << >>)
  /\ env = (NameA :> << >> @@ NameB :> <<"v">>)


(***************************************************************************)
(* cli: the commands check and sync.  A file is absent, present and not    *)
(* readable, or present with its bytes; bufio.ScanLines cuts the bytes     *)
(* into the lines ParseEnvFile works on.                                   *)
(***************************************************************************)
\* a file that exists and cannot be opened for reading
LockedFile == [exists |-> TRUE, readable |-> FALSE, data |-> << >>]

FileOf(data) == [exists |-> TRUE, readable |-> TRUE, data |-> data]

RECURSIVE ScanLines(_)
\* the tokens of bufio.ScanLines: each line without its newline, and a last
\* line that is not empty and has no newline
ScanLines(data) ==
  IF data = << >> THEN << >>
  ELSE IF ContainsChar(data, "\n")
       THEN << BeforeFirst(data, "\n") >> \o ScanLines(AfterFirst(data, "\n"))
       ELSE << data >>

RECURSIVE ParseEnvLines(_, _)
\* the scanner loop of ParseEnvFile over the lines
ParseEnvLines(vs, lines) ==
  IF lines = << >> THEN vs ELSE ParseEnvLines(ParseEnvLine(vs, Head(lines)), Tail(lines))

\* parser.ParseEnvFile on a path
ParseEnvFile(f) ==
  IF ~(f.exists /\ f.readable) THEN FailedFile
  ELSE ParsedFile(ParseEnvLines(EmptyMap, ScanLines(f.data)))

\* checkFileExists: whether it returns an error
checkFileExists(f) == ~f.exists

\* checker.CompareEnvFiles(envFile, exampleFile)
CompareEnvFiles(envF, exampleF, perm) ==
  LET e == ParseEnvFile(envF)
      x == ParseEnvFile(exampleF)
  IN  IF e.err THEN ParseError
      ELSE IF x.err THEN ParseError
      ELSE CompareEnvVars(e.vars, x.vars, perm)

\* a command that returns an error: main prints it and exits with 1
ReturnsError == [report |-> NoResult, exit |-> 1]

\* a plausible slip: the exit with 1 on issues is forgotten
runCheckReturnsNil(exampleF, envF, perm) ==
  IF checkFileExists(exampleF) THEN ReturnsError
  ELSE IF checkFileExists(envF) THEN ReturnsError
  ELSE LET res == CompareEnvFiles(envF, exampleF, perm)
       IN  IF IsError(res) THEN ReturnsError
           ELSE [report |-> res, exit |-> 0]

\* runCheck, and main on what it returns
runCheck(exampleF, envF, perm) ==
  IF checkFileExists(exampleF) THEN ReturnsError
  ELSE IF checkFileExists(envF) THEN ReturnsError
  ELSE LET res == CompareEnvFiles(envF, exampleF, perm)
       IN  IF IsError(res) THEN ReturnsError
           ELSE [report |-> res, exit |-> IF DiffHasIssues(res) THEN 1 ELSE 0]

\* "\n# Added by envquack sync\n"
Separator == <<"\n", "#", " ", "A", "d", "d", "e", "d", " ", "b", "y", " ", "e", "n", "v", "q", "u", "a", "c", "k", " ", "s", "y", "n", "c", "\n">>

RECURSIVE KeyLines(_)
\* the lines "%s=\n" of the keys
KeyLines(keys) ==
  IF keys = << >> THEN << >> ELSE Head(keys) \o <<"=", "\n">> \o KeyLines(Tail(keys))

\* sync leaves the env file as it is and returns an error
SyncFails(envF) == [file |-> envF, exit |-> 1]

\* runSync, and main on what it returns: the env file afterwards and the exit
\* code; canWrite is whether os.OpenFile opens the env file for appending
runSync(exampleF, envF, canWrite, perm) ==
  IF checkFileExists(exampleF) THEN SyncFails(envF)
  ELSE LET exampleP == ParseEnvFile(exampleF)
       IN  IF exampleP.err THEN SyncFails(envF)
           ELSE LET envP == IF ~envF.exists THEN ParsedFile(EmptyMap) ELSE ParseEnvFile(envF)
                IN  IF envP.err THEN SyncFails(envF)
                    ELSE LET res == CompareEnvVars(envP.vars, exampleP.vars, perm)
                         IN  IF Len(res.Missing) = 0 THEN [file |-> envF, exit |-> 0]
                             ELSE IF ~canWrite THEN SyncFails(envF)
                             ELSE [file |-> FileOf(envF.data
                                       \o (IF DOMAIN envP.vars # {} THEN Separator ELSE << >>)
                                       \o KeyLines(res.Missing)),
                                   exit |-> 0]

\* lines of an env file: two assignments, a comment, an empty line, no '='
SyncEnvLines == { <<"A", "=", "1">>, <<"B", "=">>, <<"#", " ", "c">>, <<>>, <<"A">> }

\* lines of an example file: three names, one of them the empty name
SyncExampleLines == { <<"A", "=">>, <<"B", "=", "x">>, <<"C", "=", "'", "y", "'">>, <<"=", "x">> }

LineLists(L) == UNION { [1..n -> L] : n \in 0..MaxSyncLines }

\* the bytes of the lines, the last line with its newline or without
DataOf(ls) ==
  { JoinLines(ls) } \cup
  (IF ls = << >> THEN {} ELSE { SubSeq(JoinLines(ls), 1, Len(JoinLines(ls)) - 1) })

SyncEnvFiles ==
  {AbsentFile, LockedFile} \cup { FileOf(d) : d \in UNION { DataOf(ls) : ls \in LineLists(SyncEnvLines) } }

SyncExampleFiles ==
  {AbsentFile, LockedFile} \cup { FileOf(JoinLines(ls)) : ls \in LineLists(SyncExampleLines) }

InitCli ==
  /\ command = "none"
  /\ exampleFile \in SyncExampleFiles /\ envFile \in SyncEnvFiles
  /\ reported = NoResult /\ exitCode = NoResult
  /\ IdleCompare /\ IdleEnvFile /\ IdleSection /\ IdleDockerfile /\ IdleQuery /\ IdleMerge /\ IdleAudit /\ IdleRepeat

\* the names the comparison of the two files ranges over
CliNames ==
  DOMAIN ParseEnvFile(envFile).vars \cup DOMAIN ParseEnvFile(exampleFile).vars

\* envquack check
RunCheck ==
  /\ command = "none"
  /\ \E perm \in Perms(CliNames) :
       LET out == runCheck(exampleFile, envFile, perm)
       IN  /\ reported' = out.report
           /\ exitCode' = [code |-> out.exit]
  /\ command' = "check"
  /\ UNCHANGED << exampleFile, envFile, compareVars, envFileVars, sectionVars,
               parseDockerfileVars, queryVars, mergeVars, auditVars, repeatVars >>

\* envquack sync
RunSync ==
  /\ command = "none"
  /\ \E perm \in Perms(CliNames), canWrite \in BOOLEAN :
       LET out == runSync(exampleFile, envFile, canWrite, perm)
       IN  /\ envFile' = out.file
           /\ exitCode' = [code |-> out.exit]
  /\ command' = "sync"
  /\ UNCHANGED << exampleFile, reported, compareVars, envFileVars, sectionVars,
               parseDockerfileVars, queryVars, mergeVars, auditVars, repeatVars >>

NextCli == RunCheck \/ RunSync

SpecCli == InitCli /\ [][NextCli]_vars


(***************************************************************************)
(* Properties of sync and check.                                           *)
(***************************************************************************)
\* the variables re-parsing finds in a file; none in a file that is absent
VarsOf(f) == IF f.exists THEN ParseEnvFile(f).vars ELSE EmptyMap

\* the keys of the example file that the env file lacks
MissingOf(exampleF, envF) == DOMAIN VarsOf(exampleF) \ DOMAIN VarsOf(envF)

\* a step of sync that ends without an error
SyncSucceeds == command = "none" /\ command' = "sync" /\ exitCode' = [code |-> 0]

\* C18: after sync has appended `KEY=` for each entry of Missing, re-parsing
\* the env file yields exactly the original keys and the missing ones, every
\* added key with the empty string and every original key with its value.
C18_SyncRoundTrip ==
  [][SyncSucceeds =>
       LET before == VarsOf(envFile)
           missing == MissingOf(exampleFile, envFile)
           after == VarsOf(envFile')
       IN  /\ DOMAIN after = DOMAIN before \cup missing
           /\ \A k \in missing : after[k] = << >>
           /\ \A k \in DOMAIN before : after[k] = before[k]]_vars

\* C19: sync only appends: the new content is the previous content followed
\* by the separator comment, exactly when the file was non-empty, and one
\* `KEY=` line per missing key in sorted order; an absent file is created;
\* when nothing is missing the file is not touched.
C19_SyncOnlyAppends ==
  [][(command = "none" /\ command' = "sync") =>
       LET missing == MissingOf(exampleFile, envFile)
           appended == (IF envFile.data # << >> THEN Separator ELSE << >>)
                         \o KeyLines(SortedListOf(missing))
       IN  IF exitCode' = [code |-> 0] /\ missing # {}
           THEN envFile' = FileOf(envFile.data \o appended)
           ELSE envFile' = envFile]_vars


\* a file check can read
Usable(f) == f.exists /\ f.readable

\* C20: check exits with 1 if the comparison of the env file with the
\* example file has issues (Missing or Extra non-empty) and with 0 otherwise;
\* when one of the two files does not exist or cannot be read, it reports
\* no comparison result and the exit code is not 0.
C20_CheckExitCode ==
  command = "check" =>
    IF Usable(exampleFile) /\ Usable(envFile)
    THEN /\ reported # NoResult
         /\ ListsExactly(reported.Missing, MissingOf(exampleFile, envFile))
         /\ ListsExactly(reported.Extra, MissingOf(envFile, exampleFile))
         /\ exitCode = [code |-> IF reported.Missing # << >> \/ reported.Extra # << >>
                                 THEN 1 ELSE 0]
    ELSE reported = NoResult /\ exitCode # NoResult /\ exitCode.code # 0

\* C20 witness: check ran on an env file that lacks a name of the example
\* file, reported the comparison and exited with 1
C20_Witness ==
  /\ command = "check" /\ Usable(exampleFile) /\ Usable(envFile)
  /\ reported # NoResult /\ reported.Missing # << >> /\ reported.Extra = << >>
  /\ exitCode = [code |-> 1]


(***************************************************************************)
(* cli: the command audit.  runAudit runs its sub-checks in turn, each     *)
(* setting hasErrors, and exits with 1 when the flag is set.               *)
(***************************************************************************)
\* fileExists
fileExists(f) == f.exists

RECURSIVE MergeEnvFiles(_, _)
\* the loop of CompareComposeWithEnv over what ParseEnvFile returns for the
\* supplied files
MergeEnvFiles(all, files) ==
  IF files = << >> THEN all
  ELSE MergeEnvFiles(IF Head(files).err THEN all ELSE MergeInto(all, Head(files).vars),
                     Tail(files))

\* checker.CompareComposeWithEnv(composeFile, envFiles)
CompareComposeWithEnv(composeF, files, svcOrd, refOrd, perm) ==
  IF ~composeF.readable THEN ParseError
  ELSE LET info == ParseComposeData(composeF.doc, svcOrd, refOrd)
       IN  IF IsError(info) THEN ParseError
           ELSE compareComposeWithEnvVars(info, MergeEnvFiles(EmptyMap, files), {}, perm)

\* the first sub-check of runAudit: whether it sets hasErrors
AuditEnvCheckFails(exampleF, envF, perm) ==
  IF ~checkFileExists(exampleF) /\ fileExists(envF)
  THEN LET res == CompareEnvFiles(envF, exampleF, perm)
       IN  IF IsError(res) THEN TRUE ELSE DiffHasIssues(res)
  ELSE FALSE

\* the envFiles runAudit hands to CompareComposeWithEnv
AuditEnvFiles(envF) == IF fileExists(envF) THEN << ParseEnvFile(envF) >> ELSE << >>

\* the second sub-check of runAudit: whether it sets hasErrors
AuditComposeCheckFails(composeF, envF, svcOrd, refOrd, perm) ==
  IF ~checkFileExists(composeF)
  THEN LET res == CompareComposeWithEnv(composeF, AuditEnvFiles(envF), svcOrd, refOrd, perm)
       IN  IF IsError(res) THEN TRUE ELSE ComposeHasIssues(res)
  ELSE FALSE

\* env and example files of the audit: absent, unreadable, empty, one variable
AuditEnvInputs == { AbsentFile, LockedFile, FileOf(<< >>), FileOf(<<"A", "=", "v", "\n">>) }

AuditExampleInputs == { AbsentFile, LockedFile, FileOf(<< >>), FileOf(<<"A", "=", "\n">>) }

\* a compose file of one service that sets A
AuditDoc ==
  [valid |-> TRUE, text |-> << >>,
   services |-> "web" :> [Environment |-> YMap(NameA :> YStr(<<"v">>)), EnvFile |-> YNil]]

\* compose files: absent, unreadable, no YAML, no service, one service
AuditComposeInputs ==
  { NoComposeFile, [exists |-> TRUE, readable |-> FALSE, doc |-> NoDoc] }
    \cup { [exists |-> TRUE, readable |-> TRUE, doc |-> d] : d \in {BadDoc, NoDoc, AuditDoc} }

\* Dockerfiles: absent, empty, one that declares ARG B and never uses it
AuditDockerInputs ==
  { NoDockerFile, [exists |-> TRUE, info |-> NoDockerInfo],
    [exists |-> TRUE,
     info |-> [EnvVars |-> EmptyMap, ArgVars |-> NameB :> <<"v">>, VariableRefs |-> << >>]] }

InitAudit ==
  /\ command = "audit" /\ auditPc = "env" /\ hasErrors = FALSE
  /\ exampleFile \in AuditExampleInputs /\ envFile \in AuditEnvInputs
  /\ composeFile \in AuditComposeInputs /\ dockerFile \in AuditDockerInputs
  /\ reported = NoResult /\ exitCode = NoResult
  /\ IdleCompare /\ IdleEnvFile /\ IdleSection /\ IdleDockerfile /\ IdleQuery /\ IdleMerge /\ IdleRepeat

\* "1. Basic .env vs .env.example check"
AuditEnvCheck ==
  /\ auditPc = "env"
  /\ \E perm \in Perms(CliNames) :
       hasErrors' = (hasErrors \/ AuditEnvCheckFails(exampleFile, envFile, perm))
  /\ auditPc' = "compose"
  /\ UNCHANGED << composeFile, dockerFile, cliVars, compareVars, envFileVars, sectionVars,
               parseDockerfileVars, queryVars, mergeVars, repeatVars >>

\* "2. Docker Compose environment check"
AuditComposeCheck ==
  /\ auditPc = "compose"
  /\ \E svcOrd \in Perms(DOMAIN composeFile.doc.services),
        refOrd \in Perms(ReferencedVarSet(composeFile.doc.text)),
        perm \in Perms(CliNames \cup {NameA}) :
       hasErrors' =
         (hasErrors \/ AuditComposeCheckFails(composeFile, envFile, svcOrd, refOrd, perm))
  /\ auditPc' = "summary"
  /\ UNCHANGED << composeFile, dockerFile, cliVars, compareVars, envFileVars, sectionVars,
               parseDockerfileVars, queryVars, mergeVars, repeatVars >>

\* "3. Summary", and the exit
AuditExit ==
  /\ auditPc = "summary"
  /\ exitCode' = [code |-> IF hasErrors THEN 1 ELSE 0]
  /\ auditPc' = "done"
  /\ UNCHANGED << composeFile, dockerFile, hasErrors, command, exampleFile, envFile,
               reported, compareVars, envFileVars, sectionVars, parseDockerfileVars,
               queryVars, mergeVars, repeatVars >>

NextAudit == AuditEnvCheck \/ AuditComposeCheck \/ AuditExit

SpecAudit == InitAudit /\ [][NextAudit]_vars


\* the dotenv sub-check has issues or cannot parse a file
EnvCheckBad ==
  /\ exampleFile.exists /\ envFile.exists
  /\ \/ ~exampleFile.readable \/ ~envFile.readable
     \/ DOMAIN VarsOf(exampleFile) # DOMAIN VarsOf(envFile)

\* the compose sub-check has issues or cannot parse the compose file
ComposeCheckBad ==
  /\ composeFile.exists
  /\ \/ ~composeFile.readable \/ ~composeFile.doc.valid
     \/ \E svcOrd \in Perms(DOMAIN composeFile.doc.services),
           refOrd \in Perms(ReferencedVarSet(composeFile.doc.text)),
           perm \in Perms(CliNames \cup {NameA}) :
          ComposeHasIssues(CompareComposeWithEnv(composeFile, AuditEnvFiles(envFile),
                                                 svcOrd, refOrd, perm))

\* the Dockerfile comparison against the env file has issues
DockerfileCheckBad ==
  /\ dockerFile.exists
  /\ \E perm \in Perms(CliNames \cup {NameA, NameB}) :
       DockerfileHasIssues(compareDockerfileWithEnvVars(
         dockerFile.info, MergeEnvFiles(EmptyMap, AuditEnvFiles(envFile)), perm))

\* C21: audit runs the dotenv, the compose and the Dockerfile comparisons in
\* turn; the has-errors flag is never cleared once set, every sub-check runs
\* whatever the earlier ones found, and the exit code is 1 exactly when one
\* of the three sub-checks had issues or failed to parse its file.
C21_AuditAggregatesThreeSubChecks ==
  /\ [][hasErrors => hasErrors']_vars
  /\ [](auditPc = "done" =>
          (exitCode = [code |-> 1]
             <=> (EnvCheckBad \/ ComposeCheckBad \/ DockerfileCheckBad)))


(***************************************************************************)
(* ParseDockerfile on Dockerfiles with continued, skipped and malformed    *)
(* lines.                                                                  *)
(***************************************************************************)
\*   ENV B=1 \     an ENV continued on the next line
\*   RUN x \       another instruction continued on the next line
\*   ARG A=1       an ARG with a default
\*   ENV C=3       an ENV
\*   # c \         a comment that ends in a backslash
\*   (empty)       an empty line
\*   ENV D         a malformed ENV: one word, no '='
\*   ARG A B       a malformed ARG: two words, no '='
ContinuedLines ==
  {
    <<"E", "N", "V", " ", "B", "=", "1", " ", "\\">>,
    <<"R", "U", "N", " ", "x", " ", "\\">>,
    <<"A", "R", "G", " ", "A", "=", "1">>,
    <<"E", "N", "V", " ", "C", "=", "3">>,
    <<"#", " ", "c", " ", "\\">>,
    <<>>,
    <<"E", "N", "V", " ", "D">>,
    <<"A", "R", "G", " ", "A", " ", "B">> }

ContinuedDockerfiles == UNION { [1..n -> ContinuedLines] : n \in 0..MaxContinuedLines }

InitContinued ==
  /\ mode = "dockerfile" /\ pc = "scanning"
  /\ dockerfile \in ContinuedDockerfiles
  /\ lineNum = 0 /\ currentInstruction = << >>
  /\ interpreted = << >> /\ warnings = << >>
  /\ dockerInfo = NoDockerInfo
  /\ env = EmptyMap /\ example = EmptyMap /\ doc = NoDoc /\ readable = {}
  /\ composeInfo = NoResult /\ result = NoResult /\ hasIssues = FALSE
  /\ IdleEnvFile /\ IdleSection /\ IdleQuery /\ IdleMerge /\ IdleCli /\ IdleAudit /\ IdleRepeat

NextContinued == ScanDockerfile \/ FinishParseDockerfile

SpecContinued == InitContinued /\ [][NextContinued]_vars

\* the trimmed lines that are neither blank nor comments
KeptLines(lines) ==
  SelectSeq([i \in 1..Len(lines) |-> TrimSpace(lines[i])],
            LAMBDA l : l # << >> /\ ~HasPrefix(l, <<"#">>))

Continues(l) == HasSuffix(l, <<"\\">>)

RECURSIVE JoinRun(_, _, _)
\* the lines i..j-1 without their backslash, a space after each, and line j
JoinRun(kept, i, j) ==
  IF i = j THEN kept[j]
  ELSE SubSeq(kept[i], 1, Len(kept[i]) - 1) \o <<" ">> \o JoinRun(kept, i + 1, j)

\* where the run that line j ends begins
RunStart(kept, j) ==
  Least({ i \in 1..j : \A k \in i..(j - 1) : Continues(kept[k]) })

\* the logical instructions of the lines: one for each kept line that does
\* not end in a backslash, joined with the run of continued lines before it
LogicalInstructions(lines) ==
  LET kept == KeptLines(lines)
      ends == SelectSeq([j \in 1..Len(kept) |-> j], LAMBDA j : ~Continues(kept[j]))
  IN  [n \in 1..Len(ends) |-> JoinRun(kept, RunStart(kept, ends[n]), ends[n])]

RECURSIVE InterpretAll(_, _)
\* the info after each instruction is interpreted once, in order
InterpretAll(info, instructions) ==
  IF instructions = << >> THEN info
  ELSE InterpretAll(parseDockerfileInstruction(Head(instructions), info), Tail(instructions))

\* C22: after every line read, the lines interpreted are exactly the logical
\* instructions of the lines read: each run of lines ending in a backslash
\* joined, backslashes removed, with the line that ends it, interpreted once
\* as a whole; no line of a run on its own, no blank line, no comment.
C22_ContinuedLinesInterpretedAsOne ==
  LET instructions == LogicalInstructions(SubSeq(dockerfile, 1, lineNum))
      declared == InterpretAll(NoDockerInfo, instructions)
  IN  /\ interpreted = instructions
      /\ dockerInfo.EnvVars = declared.EnvVars
      /\ dockerInfo.ArgVars = declared.ArgVars

\* C22 witness: `ENV B=1 \`, a comment, `ARG A=1` were read as the one
\* instruction ENV B=1 ARG A=1, which declares no ARG
C22_Witness ==
  /\ pc = "parsed"
  /\ dockerfile = << <<"E", "N", "V", " ", "B", "=", "1", " ", "\\">>, <<"#", " ", "c", " ", "\\">>, <<"A", "R", "G", " ", "A", "=", "1">> >>
  /\ Len(interpreted) = 1 /\ HasPrefix(interpreted[1], <<"E", "N", "V", " ", "B", "=", "1", " ">>)
  /\ HasSuffix(interpreted[1], <<"A", "R", "G", " ", "A", "=", "1">>)
  /\ dockerInfo.ArgVars = EmptyMap
  /\ DOMAIN dockerInfo.EnvVars = {NameA, NameB}


\* the instructions that are not malformed
WellFormed(instructions) == SelectSeq(instructions, LAMBDA t : ~InstructionFails(t))

\* C25: a malformed ENV or ARG instruction only produces a warning: the
\* step that warns leaves the declarations as they were, and ParseDockerfile
\* returns the declarations of all other instructions, the later ones
\* included, with one warning for each malformed instruction.
C25_MalformedInstructionOnlyWarns ==
  /\ [][warnings' # warnings =>
          /\ InstructionFails(interpreted'[Len(interpreted')])
          /\ dockerInfo' = dockerInfo
          /\ pc' = "scanning"]_vars
  /\ [](pc = "parsed" =>
          LET instructions == LogicalInstructions(dockerfile)
              declared == InterpretAll(NoDockerInfo, WellFormed(instructions))
          IN  /\ dockerInfo.EnvVars = declared.EnvVars
              /\ dockerInfo.ArgVars = declared.ArgVars
              /\ Len(warnings) = Len(instructions) - Len(WellFormed(instructions)))

\* C25 witness: `ARG A=1`, the malformed `ENV D`, `ENV C=3` were parsed:
\* one warning for line 2, A and C declared, D not
C25_Witness ==
  /\ pc = "parsed"
  /\ dockerfile = << <<"A", "R", "G", " ", "A", "=", "1">>, <<"E", "N", "V", " ", "D">>, <<"E", "N", "V", " ", "C", "=", "3">> >>
  /\ warnings = << 2 >>
  /\ DOMAIN dockerInfo.ArgVars = {NameA} /\ DOMAIN dockerInfo.EnvVars = {NameC}


\* the instructions of a whole file: the logical instructions, and the run
\* of continued lines that is still open when the file ends
InstructionsToTheEnd(lines) ==
  LET kept == KeptLines(lines)
      n == Len(kept)
  IN  IF n > 0 /\ Continues(kept[n])
      THEN Append(LogicalInstructions(lines),
                  JoinRun(Append(kept, << >>), RunStart(kept, n + 1), n + 1))
      ELSE LogicalInstructions(lines)

\* C29: no declaration is lost at the end of input: ParseDockerfile returns
\* the declarations of every ENV and ARG instruction of the file, the one
\* included whose last line ends in a backslash with nothing after it.
C29_NoDeclarationLostAtEndOfInput ==
  pc = "parsed" =>
    LET declared == InterpretAll(NoDockerInfo, InstructionsToTheEnd(dockerfile))
    IN  /\ dockerInfo.EnvVars = declared.EnvVars
        /\ dockerInfo.ArgVars = declared.ArgVars


(***************************************************************************)
(* ParseDockerfile on one ENV or ARG instruction with any content over a   *)
(* small alphabet: a name, '=', a space, the two quotes, a letter.         *)
(***************************************************************************)
ContentAlphabet == { "A", "=", " ", "\"", "'", "x" }

\* longer contents: two pairs with a quoted value, and the legacy form with
\* several words
ExampleContents == { <<"A", "=", "1", " ", "B", "=", "\"", "x", " ", "y", "\"">>, <<"B", " ", " ", "v", " ", "\"", "w", " ", " ", "x", "\"">> }

\* contents as parseDockerfileInstruction trims them: no space at either end
InstructionContents ==
  { c \in UNION { [1..n -> ContentAlphabet] : n \in 1..MaxContentLen } :
      c[1] # " " /\ c[Len(c)] # " " }
    \cup ExampleContents

InitInstruction ==
  /\ mode = "dockerfile" /\ pc = "scanning"
  /\ \E c \in InstructionContents :
       dockerfile \in { << <<"E", "N", "V", " ">> \o c >>, << <<"A", "R", "G", " ">> \o c >> }
  /\ lineNum = 0 /\ currentInstruction = << >>
  /\ interpreted = << >> /\ warnings = << >>
  /\ dockerInfo = NoDockerInfo
  /\ env = EmptyMap /\ example = EmptyMap /\ doc = NoDoc /\ readable = {}
  /\ composeInfo = NoResult /\ result = NoResult /\ hasIssues = FALSE
  /\ IdleEnvFile /\ IdleSection /\ IdleQuery /\ IdleMerge /\ IdleCli /\ IdleAudit /\ IdleRepeat

NextInstruction == ScanDockerfile \/ FinishParseDockerfile

SpecInstruction == InitInstruction /\ [][NextInstruction]_vars

\* the instruction of the file and its content
IsEnvLine == HasPrefix(dockerfile[1], <<"E", "N", "V", " ">>)

ContentOf == SubSeq(dockerfile[1], 5, Len(dockerfile[1]))

\* the declarations the instruction made
Declared == IF IsEnvLine THEN dockerInfo.EnvVars ELSE dockerInfo.ArgVars

RECURSIVE OpenQuote(_, _)
\* the quote that is open after the first i characters of s, "" if none: a
\* quote opens outside quotes and is closed by the same quote
OpenQuote(s, i) ==
  IF i = 0 THEN ""
  ELSE LET q == OpenQuote(s, i - 1)
       IN  IF ~IsQuote(s[i]) THEN q
           ELSE IF q = "" THEN s[i]
           ELSE IF q = s[i] THEN "" ELSE q

\* a space outside quotes
Splits(s, i) == s[i] = " " /\ OpenQuote(s, i - 1) = ""

\* the pairs: the maximal stretches without a space outside quotes
PairStarts(s) == { i \in 1..Len(s) : ~Splits(s, i) /\ (i = 1 \/ Splits(s, i - 1)) }

PairFrom(s, i) ==
  SubSeq(s, i, Greatest({ j \in i..Len(s) : \A k \in i..j : ~Splits(s, k) }))

RECURSIVE StoredFrom(_, _, _, _)
\* the pairs with '=' from position i on, stored in order; trim is whether
\* spaces around the key and the value are dropped
StoredFrom(s, i, vs, trim) ==
  IF i > Len(s) THEN vs
  ELSE IF i \notin PairStarts(s) THEN StoredFrom(s, i + 1, vs, trim)
  ELSE LET pair == PairFrom(s, i)
           key == BeforeFirst(pair, "=")
           value == AfterFirst(pair, "=")
       IN  IF ~ContainsChar(pair, "=") THEN StoredFrom(s, i + 1, vs, trim)
           ELSE StoredFrom(s, i + 1,
                           Put(vs, IF trim THEN TrimSpace(key) ELSE key,
                               StripQuotes(IF trim THEN TrimSpace(value) ELSE value)),
                           trim)

Tokens == Fields(ContentOf)

\* C24: an ENV instruction in the deprecated form `ENV KEY VALUE...`, whose
\* first word holds no '=', stores KEY with the remaining words joined with
\* single spaces, whatever the words contain, and stores no other key.
C24_LegacyEnvStoresKeyAndJoinedWords ==
  (/\ pc = "parsed" /\ IsEnvLine
   /\ Len(Tokens) >= 2 /\ ~ContainsChar(Tokens[1], "=")) =>
    dockerInfo.EnvVars = (Tokens[1] :> JoinWithSpace(Tail(Tokens)))


(***************************************************************************)
(* A comparison made twice on the same inputs.                             *)
(***************************************************************************)
\* compose documents for the repeated comparison: every service set, with
\* references in the text
RepeatDocs == { d \in Docs : d.valid /\ d.text # << >> }

InitRepeat ==
  /\ pc = "start"
  /\ composeInfo = NoResult /\ result = NoResult /\ hasIssues = FALSE
  /\ again = NoResult
  /\ \/ InitEnv
     \/ InitCompose /\ doc \in RepeatDocs /\ readable = {PathE}
     \/ InitDockerfile /\ DOMAIN dockerInfo.EnvVars = Keys
  /\ IdleEnvFile /\ IdleSection /\ IdleDockerfile /\ IdleQuery /\ IdleMerge /\ IdleCli
  /\ IdleAudit

\* the same comparison called once more: the runtime is free to range over
\* the maps in another order
CompareAgainCall ==
  /\ pc = "compared" /\ again = NoResult
  /\ \E perm \in Perms(DOMAIN env \cup DOMAIN example
                         \cup (IF mode = "compose"
                               THEN DOMAIN composeInfo.Variables
                                      \cup Range(composeInfo.VariableRefs)
                               ELSE {})
                         \cup DOMAIN dockerInfo.EnvVars \cup DOMAIN dockerInfo.ArgVars
                         \cup Range(dockerInfo.VariableRefs)) :
       again' = CASE mode = "env" -> CompareEnvVars(env, example, perm)
                  [] mode = "compose" ->
                       compareComposeWithEnvVars(composeInfo, env, readable, perm)
                  [] mode = "dockerfile" ->
                       compareDockerfileWithEnvVars(dockerInfo, env, perm)
  /\ UNCHANGED << compareVars, envFileVars, sectionVars, parseDockerfileVars, queryVars,
               mergeVars, cliVars, auditVars >>

NextRepeat ==
  \/ CompareEnvVarsCall
  \/ ParseComposeDataCall
  \/ CompareComposeCall
  \/ CompareDockerfileCall
  \/ CompareAgainCall

SpecRepeat == InitRepeat /\ [][NextRepeat]_vars

\* a step that is a call of one of the three comparisons
ComparisonStep == result' # result \/ again' # again

\* C26: a comparison called twice on the same inputs returns equal results,
\* whatever order the maps are ranged over, and a call leaves the variable
\* sets, the info structures and the files as they were.
C26_ComparisonIsIdempotent ==
  /\ [](again # NoResult => again = result)
  /\ [][ComparisonStep =>
          UNCHANGED << env, example, doc, readable, composeInfo, dockerInfo >>]_vars

\* C26 witness: a compose comparison with two missing names and two service
\* entries was made twice
C26_Witness ==
  /\ mode = "compose" /\ again # NoResult
  /\ Len(result.MissingInEnv) >= 2 /\ Len(result.MissingEnvFiles) >= 1
  /\ again.MissingInEnv = result.MissingInEnv
  /\ DOMAIN again.ServiceBreakdown # {}


(***************************************************************************)
(* sync run twice in a row.                                                *)
(***************************************************************************)
\* envquack sync, run again after a run that ended without an error
RunSyncAgain ==
  /\ command = "sync" /\ exitCode = [code |-> 0]
  /\ \E perm \in Perms(CliNames), canWrite \in BOOLEAN :
       LET out == runSync(exampleFile, envFile, canWrite, perm)
       IN  /\ envFile' = out.file
           /\ exitCode' = [code |-> out.exit]
  /\ command' = "sync again"
  /\ UNCHANGED << exampleFile, reported, compareVars, envFileVars, sectionVars,
               parseDockerfileVars, queryVars, mergeVars, auditVars, repeatVars >>

NextSyncTwice == RunSync \/ RunSyncAgain

SpecSyncTwice == InitCli /\ [][NextSyncTwice]_vars

\* C27: after a sync run that ends without an error, whatever the env file
\* held before, the comparison of the re-parsed files has an empty Missing
\* list and the Extra list it had before the run, and a second sync run
\* right after it appends nothing.
C27_SyncLeavesNothingMissing ==
  /\ [][SyncSucceeds =>
          /\ MissingOf(exampleFile', envFile') = {}
          /\ MissingOf(envFile', exampleFile') = MissingOf(envFile, exampleFile)]_vars
  /\ [][(command = "sync" /\ command' = "sync again") => envFile' = envFile]_vars


(***************************************************************************)
(* The same compose document parsed twice.                                 *)
(***************************************************************************)
InitParseTwice ==
  /\ pc = "start"
  /\ composeInfo = NoResult /\ result = NoResult /\ hasIssues = FALSE
  /\ again = NoResult
  /\ InitCompose /\ env = EmptyMap /\ readable = {}
  /\ IdleEnvFile /\ IdleSection /\ IdleDockerfile /\ IdleQuery /\ IdleMerge /\ IdleCli
  /\ IdleAudit

\* ParseComposeData on the same bytes once more: the runtime is free to range
\* over compose.Services and over the reference set in another order
ParseComposeDataAgainCall ==
  /\ mode = "compose" /\ pc = "parsed" /\ again = NoResult
  /\ \E svcOrd \in Perms(DOMAIN doc.services), perm \in Perms(ReferencedVarSet(doc.text)) :
       again' = ParseComposeData(doc, svcOrd, perm)
  /\ UNCHANGED << compareVars, envFileVars, sectionVars, parseDockerfileVars, queryVars,
               mergeVars, cliVars, auditVars >>

NextParseTwice == ParseComposeDataCall \/ ParseComposeDataAgainCall

SpecParseTwice == InitParseTwice /\ [][NextParseTwice]_vars

\* C28: two parses of the same compose bytes return equal Variables,
\* ServiceVars, EnvFiles and VariableRefs, also when two services give the
\* same key different values.
C28_ParseComposeDataIsDeterministic ==
  again # NoResult =>
    /\ again.Variables = composeInfo.Variables
    /\ again.ServiceVars = composeInfo.ServiceVars
    /\ again.EnvFiles = composeInfo.EnvFiles
    /\ again.VariableRefs = composeInfo.VariableRefs


\* C30: in every result of compareComposeWithEnvVars each variable listed in
\* a ServiceBreakdown entry is an element of MissingInEnv, so a non-empty
\* ServiceBreakdown implies HasIssues(); MissingInEnv and ExtraInEnv have no
\* element in common.
C30_BreakdownWithinMissingAndListsDisjoint ==
  ComposeCompared =>
    /\ \A svc \in DOMAIN result.ServiceBreakdown :
         Range(result.ServiceBreakdown[svc]) \subseteq Range(result.MissingInEnv)
    /\ DOMAIN result.ServiceBreakdown # {} => ComposeHasIssues(result)
    /\ Range(result.MissingInEnv) \cap Range(result.ExtraInEnv) = {}

\* C30 witness: a result with a service entry, a missing name that no
\* service entry lists, and an extra name
C30_Witness ==
  /\ ComposeCompared
  /\ DOMAIN result.ServiceBreakdown # {}
  /\ \E v \in Range(result.MissingInEnv) :
       \A svc \in DOMAIN result.ServiceBreakdown : v \notin Range(result.ServiceBreakdown[svc])
  /\ result.ExtraInEnv # << >>

=============================================================================
